---- MODULE Spec2Model ----
(***************************************************************************)
(* The Constellation Cursor: an interposition library that replaces a      *)
(* compositor's hardware cursor.  The model covers the intercepted driver  *)
(* entry points (ioctl, drmModeSetCursor, drmModeSetCursor2,               *)
(* drmModeMoveCursor, drmModeGetPlane, drmModeAtomicAddProperty), the      *)
(* owned cursor surface, the cursor-plane registry, the visibility / fade  *)
(* flags and the background fade threads of src/src/lib.rs.                *)
(*                                                                         *)
(* Every intercepted call is one atomic action (the compositor serialises  *)
(* its own call path); a fade thread is a sequence of steps, one per       *)
(* shared-memory access, interleaved freely with the intercepted calls.    *)
(* SpecCreate drops the serialisation for one ioctl of a second thread,    *)
(* SpecPublish for the ioctl that creates the surface.                     *)
(***************************************************************************)
EXTENDS Integers, Sequences, FiniteSets, TLC

VARIABLES
    visible,        \* CURSOR_VISIBLE
    fadingOut,      \* CURSOR_FADING_OUT
    fadingIn,       \* CURSOR_FADING_IN
    fadeAlpha,      \* CURSOR_FADE_ALPHA
    running,        \* FADE_THREAD_RUNNING
    tasks,          \* the fade threads: slot -> [pc, kind, alpha, step]
    initialized,    \* INITIALIZED
    cursorHandle,   \* CURSOR_HANDLE
    cursorFbId,     \* CURSOR_FB_ID
    cursorFd,       \* CURSOR_FD
    buffer,         \* CURSOR_BUFFER is non-null
    surface,        \* alpha of a pixel of the owned buffer that the design draws opaque
    planes,         \* CURSOR_PLANE_IDS and the five CURSOR_*_PROP_IDS arrays
    cursorHot,      \* CURSOR_HOTSPOT_X, CURSOR_HOTSPOT_Y
    appliedHot,     \* APPLIED_HOTSPOT_X, APPLIED_HOTSPOT_Y
    hotspotInit,    \* HOTSPOT_INITIALIZED
    screen,         \* CURSOR_SCREEN_X, CURSOR_SCREEN_Y
    config,         \* the loaded configuration (fade, fade-in, speed, smoothing)
    resolved,       \* which real functions dlsym finds
    pending,        \* a call of a second compositor thread that is suspended
                    \* between two of its accesses to the shared state
    calls,          \* the real driver calls made by the last step, in order
    ret,            \* the value the last intercepted call returned
    last            \* the last step: its name and its inputs

vars == <<visible, fadingOut, fadingIn, fadeAlpha, running, tasks, initialized,
          cursorHandle, cursorFbId, cursorFd, buffer, surface, planes, cursorHot,
          appliedHot, hotspotInit, screen, config, resolved, pending, calls, ret,
          last>>

(***************************************************************************)
(* Bounds of the model.                                                    *)
(***************************************************************************)
\* fade-thread slots: the operating system would allow any number of threads
MaxTasks == 2

(***************************************************************************)
(* Program constants.  A request code is the pair <<high 16 bits, low 16   *)
(* bits>> of the 32-bit code.                                              *)
(***************************************************************************)
DRM_IOCTL_MODE_CURSOR == <<49180, 25763>>       \* 0xC01C64A3
DRM_IOCTL_MODE_CURSOR2 == <<49200, 25787>>      \* 0xC03064BB
DRM_IOCTL_MODE_CREATE_DUMB == <<49184, 25778>>  \* 0xC02064B2
DRM_IOCTL_MODE_MAP_DUMB == <<49168, 25779>>     \* 0xC01064B3
DRM_IOCTL_MODE_DESTROY_DUMB == <<49156, 25780>> \* 0xC00464B4
DRM_IOCTL_MODE_ADDFB2 == <<49216, 25784>>       \* 0xC04064B8
DRM_PLANE_TYPE_CURSOR == 2
DRM_MODE_CURSOR_BO == 1
DRM_MODE_CURSOR_MOVE == 2
CURSOR_DISPLAY_SIZE == 64
BUFFER_SIZE == 256
REGISTRY_CAPACITY == 8
FADE_IN_START_ALPHA == 10
MIN_THREAD_STEP == 5
FULL_ALPHA == 255
DRM_IOCTL_BASE == 100

(***************************************************************************)
(* The environment: the values the compositor passes and the driver        *)
(* returns.                                                                *)
(***************************************************************************)
Fds == {3}
\* a cursor request and a DRM request that is not one
Requests == {DRM_IOCTL_MODE_CURSOR2, DRM_IOCTL_MODE_DESTROY_DUMB}
CompositorHandles == {0, 9}
CompositorFbs == {0, 8}
CrtcIds == {40}
Coords == {0}
HotInputs == {0}
DriverRets == {0}
DriverHandles == {5}
DriverFbIds == {7}
DesignHots == {<<0, 0>>}
FadeSpeeds == {128}

\* the planes of the device and their properties <<id, name, value>>
PlaneProps(type) ==
    << <<20, "type", type>>, <<21, "FB_ID", 0>>, <<22, "SRC_W", 0>>,
       <<23, "SRC_H", 0>>, <<24, "CRTC_W", 0>>, <<25, "CRTC_H", 0>>,
       <<26, "CRTC_X", 0>> >>
\* the planes of the device: 32 is the primary plane, the others are cursor
\* planes, one more than the registry holds
PrimaryPlane == 32
CursorPlanes == {31} \cup {41, 42, 43, 44, 45, 46, 47, 48}
DriverObjects == CursorPlanes \cup {PrimaryPlane}
\* drmModeObjectGetProperties(fd, obj, DRM_MODE_OBJECT_PLANE)
DriverProps(obj) ==
    IF obj \in CursorPlanes THEN PlaneProps(DRM_PLANE_TYPE_CURSOR) ELSE PlaneProps(1)
\* the plane and the properties the compositor of Spec commits
CompositorObjects == {31}
PropertyIds == {21, 22}

(***************************************************************************)
(* Records of the interface.                                               *)
(***************************************************************************)
\* struct DrmModeCursor2 behind the ioctl argument (isNull: a null pointer)
Cursor(flags, crtc, x, y, w, h, handle, hx, hy) ==
    [isNull |-> FALSE, flags |-> flags, crtc_id |-> crtc, x |-> x, y |-> y,
     width |-> w, height |-> h, handle |-> handle, hot_x |-> hx, hot_y |-> hy]
NullArg ==
    [isNull |-> TRUE, flags |-> 0, crtc_id |-> 0, x |-> 0, y |-> 0,
     width |-> 0, height |-> 0, handle |-> 0, hot_x |-> 0, hot_y |-> 0]
\* the arguments a compositor passes to the raw ioctl
CompositorArgs ==
    {Cursor(DRM_MODE_CURSOR_BO, c, 0, 0, 24, 24, h, 0, 0) :
        c \in CrtcIds, h \in CompositorHandles}

\* a call that reaches the real ioctl / the real drmModeAtomicAddProperty
IoctlCall(fd, request, arg) ==
    [fn |-> "ioctl", fd |-> fd, request |-> request, arg |-> arg]
AtomicCall(obj, prop, value) ==
    [fn |-> "atomic", obj |-> obj, prop |-> prop, value |-> value]

\* (request >> 8) & 0xFF
DrmType(request) == (request[2] \div 256) % 256
IsCursorRequest(request) ==
    request = DRM_IOCTL_MODE_CURSOR \/ request = DRM_IOCTL_MODE_CURSOR2
HasFlag(flags, bit) == (flags \div bit) % 2 = 1

\* the outcomes of surface creation: which step fails, and what the driver returns
CreateOutcomes ==
    {[fail |-> "none", handle |-> h, fb_id |-> f] :
        h \in DriverHandles, f \in DriverFbIds} \cup
    {[fail |-> x, handle |-> 0, fb_id |-> 0] :
        x \in {"addfb"}}

\* which real functions dlsym(RTLD_NEXT, ...) finds
ResolvedSets ==
    {[ioctl |-> i, atomicAdd |-> a, getPlane |-> TRUE, getProps |-> TRUE,
      getProp |-> TRUE] : i \in {TRUE}, a \in {TRUE}}

\* the configuration file and environment, as load_config leaves them
Configs ==
    [fadeEnabled : BOOLEAN, fadeInEnabled : BOOLEAN, fadeSpeed : FadeSpeeds,
     smoothing : {TRUE}, threshold : {5}, designHot : DesignHots]

\* no call is suspended between its load of INITIALIZED and its next step
NoCall == [op |-> "none"]

DeadTask == [pc |-> "dead", kind |-> "none", alpha |-> 0, step |-> 0]
Alive(t) == tasks[t].pc # "dead"
AliveTasks == {t \in 1..MaxTasks : Alive(t)}

(***************************************************************************)
(* The state after the library is loaded (the static initialisers).        *)
(***************************************************************************)
\* the static initialiser of CURSOR_VISIBLE
InitVisibleFalse == FALSE
InitVisible == TRUE

\* every static but the record of the last step
Loaded(configs, resolutions) ==
    /\ visible = InitVisible
    /\ fadingOut = FALSE
    /\ fadingIn = FALSE
    /\ fadeAlpha = FULL_ALPHA
    /\ running = FALSE
    /\ tasks = [t \in 1..MaxTasks |-> DeadTask]
    /\ initialized = FALSE
    /\ cursorHandle = 0
    /\ cursorFbId = 0
    /\ cursorFd = -1
    /\ buffer = FALSE
    /\ surface = 0
    /\ planes = <<>>
    /\ cursorHot = <<0, 0>>
    /\ appliedHot = <<0, 0>>
    /\ hotspotInit = FALSE
    /\ screen = <<0, 0>>
    /\ config \in configs
    /\ resolved \in resolutions
    /\ pending = NoCall
    /\ calls = <<>>
    /\ ret = 0
InitOf(configs, resolutions) ==
    Loaded(configs, resolutions) /\ last = [op |-> "init"]
InitWith(configs) == InitOf(configs, ResolvedSets)
Init == InitWith(Configs)

(***************************************************************************)
(* The visual state, read off the flags.                                   *)
(***************************************************************************)
Flags ==
    [visible |-> visible, fadingOut |-> fadingOut, fadingIn |-> fadingIn,
     alpha |-> fadeAlpha, running |-> running, tasks |-> tasks]
IsHidden(f) == ~f.visible /\ ~f.fadingOut /\ ~f.fadingIn
IsVisible(f) == f.visible /\ ~f.fadingOut /\ ~f.fadingIn
IsFadingOut(f) == ~f.visible /\ f.fadingOut
IsFadingIn(f) == f.fadingIn /\ ~f.fadingOut

\* the owned surface
Surf ==
    [initialized |-> initialized, handle |-> cursorHandle, fb_id |-> cursorFbId,
     fd |-> cursorFd, buffer |-> buffer, surface |-> surface, hot |-> cursorHot]

(***************************************************************************)
(* The owned surface: create_cursor_buffer, render_cursor,                 *)
(* apply_cursor_fade.  They take and return the record Surf.               *)
(***************************************************************************)
\* render_cursor: clear the buffer, draw the design at full alpha; drawing the
\* design stores its geometry hotspot
render_cursor(s) ==
    IF ~s.buffer THEN s
    ELSE [s EXCEPT !.surface = FULL_ALPHA, !.hot = config.designHot]

\* target_alpha.clamp(0.0, 255.0), for the target num/den
ClampTarget(num, den) ==
    IF num < 0 THEN <<0, 1>>
    ELSE IF num > FULL_ALPHA * den THEN <<FULL_ALPHA, 1>>
    ELSE <<num, den>>
\* apply_cursor_fade(num/den): a pixel of alpha a > 0 gets alpha
\* trunc((a / 255) * target)
apply_cursor_fade(s, num, den) ==
    LET t == ClampTarget(num, den) IN
    IF ~s.buffer \/ s.surface = 0 THEN s
    ELSE [s EXCEPT !.surface = (s.surface * t[1]) \div (FULL_ALPHA * t[2])]

\* the buffer cleared to 0x00000000
clear_buffer(s) == IF s.buffer THEN [s EXCEPT !.surface = 0] ELSE s

\* real_ioctl inside create_cursor_buffer fails when the real ioctl is unresolved
CreateSucceeds(o) == resolved.ioctl /\ o.fail = "none"
\* the real ioctls create_cursor_buffer issues before it stops
CreateCalls(fd, o) ==
    IF ~resolved.ioctl THEN <<>>
    ELSE LET c == IoctlCall(fd, DRM_IOCTL_MODE_CREATE_DUMB, NullArg)
             m == IoctlCall(fd, DRM_IOCTL_MODE_MAP_DUMB, NullArg)
             a == IoctlCall(fd, DRM_IOCTL_MODE_ADDFB2, NullArg)
         IN  IF o.fail = "create" THEN <<c>>
             ELSE IF o.fail \in {"map", "mmap"} THEN <<c, m>>
             ELSE <<c, m, a>>
create_records_first(s, fd, o) ==
    render_cursor([s EXCEPT !.fb_id = o.fb_id, !.buffer = TRUE,
                            !.handle = o.handle, !.fd = fd,
                            !.initialized = CreateSucceeds(o)])
create_cursor_buffer(s, fd, o) ==
    IF ~CreateSucceeds(o) THEN s
    ELSE render_cursor([s EXCEPT !.fb_id = o.fb_id, !.buffer = TRUE,
                                 !.handle = o.handle, !.fd = fd,
                                 !.initialized = TRUE])

\* real_ioctl(fd, request, arg): the call it makes and the value it returns
\* when the driver answers r
RealIoctlCalls(fd, request, arg) ==
    IF resolved.ioctl THEN <<IoctlCall(fd, request, arg)>> ELSE <<>>
RealIoctlRetZero(r) == 0
RealIoctlRet(r) == IF resolved.ioctl THEN r ELSE -1

(***************************************************************************)
(* The cursor-plane registry.  Indices are 1-based; 0 is None.             *)
(***************************************************************************)
get_cursor_plane_index(ps, plane_id) ==
    IF \E i \in 1..Len(ps) : ps[i].id = plane_id
    THEN CHOOSE i \in 1..Len(ps) :
            /\ ps[i].id = plane_id
            /\ \A j \in 1..(i - 1) : ps[j].id # plane_id
    ELSE 0

\* the property id the scan of props ends with for a name (the last match), or 0
PropNamed(props, name) ==
    LET hits == {i \in 1..Len(props) : props[i][2] = name} IN
    IF hits = {} THEN 0
    ELSE props[CHOOSE i \in hits : \A j \in hits : j <= i][1]

\* the loop over the properties of a plane in drmModeGetPlane and
\* try_detect_cursor_plane
ScanProps(props) ==
    IF ~resolved.getProp
    THEN [is_cursor |-> FALSE, fb |-> 0, src_w |-> 0, src_h |-> 0,
          crtc_w |-> 0, crtc_h |-> 0]
    ELSE [is_cursor |-> \E i \in 1..Len(props) :
                            /\ props[i][2] = "type"
                            /\ props[i][3] = DRM_PLANE_TYPE_CURSOR,
          fb |-> PropNamed(props, "FB_ID"),
          src_w |-> PropNamed(props, "SRC_W"),
          src_h |-> PropNamed(props, "SRC_H"),
          crtc_w |-> PropNamed(props, "CRTC_W"),
          crtc_h |-> PropNamed(props, "CRTC_H")]

\* register_cursor_plane: the registry afterwards (unchanged when the plane is
\* known or the registry is full)
register_unbounded(ps, plane_id) ==
    IF get_cursor_plane_index(ps, plane_id) # 0 THEN ps
    ELSE Append(ps, [id |-> plane_id, fb |-> 0, src_w |-> 0, src_h |-> 0,
                     crtc_w |-> 0, crtc_h |-> 0])
register_cursor_plane(ps, plane_id) ==
    IF get_cursor_plane_index(ps, plane_id) # 0 THEN ps
    ELSE IF Len(ps) < REGISTRY_CAPACITY
    THEN Append(ps, [id |-> plane_id, fb |-> 0, src_w |-> 0, src_h |-> 0,
                     crtc_w |-> 0, crtc_h |-> 0])
    ELSE ps

\* if is_cursor { idx = register_cursor_plane(id); if idx < 8 { store the
\* nonzero property ids } }
RecordPlane(ps, plane_id, sc) ==
    IF ~sc.is_cursor THEN ps
    ELSE LET ps1 == register_cursor_plane(ps, plane_id)
             idx == get_cursor_plane_index(ps1, plane_id)
             keep(new, old) == IF new # 0 THEN new ELSE old
         IN  IF idx = 0 THEN ps1
             ELSE [ps1 EXCEPT ![idx] =
                      [id |-> plane_id,
                       fb |-> keep(sc.fb, ps1[idx].fb),
                       src_w |-> keep(sc.src_w, ps1[idx].src_w),
                       src_h |-> keep(sc.src_h, ps1[idx].src_h),
                       crtc_w |-> keep(sc.crtc_w, ps1[idx].crtc_w),
                       crtc_h |-> keep(sc.crtc_h, ps1[idx].crtc_h)]]

\* try_detect_cursor_plane: [found, planes]
NoDetect(ps, fd, object_id) == [found |-> FALSE, planes |-> ps]
try_detect_cursor_plane(ps, fd, object_id) ==
    IF fd < 0 THEN [found |-> FALSE, planes |-> ps]
    ELSE IF get_cursor_plane_index(ps, object_id) # 0
    THEN [found |-> TRUE, planes |-> ps]
    ELSE IF resolved.getProps /\ object_id \in DriverObjects
    THEN LET sc == ScanProps(DriverProps(object_id)) IN
         [found |-> sc.is_cursor, planes |-> RecordPlane(ps, object_id, sc)]
    ELSE [found |-> FALSE, planes |-> ps]

(***************************************************************************)
(* Starting a fade thread.  These take and return the record Flags.        *)
(***************************************************************************)
\* fade_speed.max(5.0)
ThreadStep(speed) == IF speed > MIN_THREAD_STEP THEN speed ELSE MIN_THREAD_STEP

\* thread::spawn: the new thread takes the lowest free slot
StartTask(ts, kind) ==
    LET free == {t \in 1..MaxTasks : ts[t].pc = "dead"} IN
    IF free = {} THEN ts
    ELSE [ts EXCEPT ![CHOOSE t \in free : \A u \in free : t <= u] =
             [pc |-> "loop", kind |-> kind,
              alpha |-> IF kind = "out" THEN FULL_ALPHA ELSE 0,
              step |-> ThreadStep(config.fadeSpeed)]]

\* FADE_THREAD_RUNNING.swap(true): TRUE when a thread already holds the flag
FadeThreadSwapNoCheck(f) == FALSE
FadeThreadSwap(f) == f.running

spawn_fade_out_thread(f) ==
    IF FadeThreadSwap(f) THEN [f EXCEPT !.running = TRUE]
    ELSE [f EXCEPT !.running = TRUE, !.tasks = StartTask(f.tasks, "out")]

spawn_fade_in_unchecked(f) ==
    [f EXCEPT !.running = TRUE, !.tasks = StartTask(f.tasks, "in")]
spawn_fade_in_thread(f) ==
    IF FadeThreadSwap(f) THEN [f EXCEPT !.running = TRUE]
    ELSE [f EXCEPT !.running = TRUE, !.tasks = StartTask(f.tasks, "in")]

\* cursor_fade_enabled()
cursor_fade_enabled == config.fadeEnabled

(***************************************************************************)
(* The intercepted calls.                                                  *)
(***************************************************************************)
\* the end of a step: the globals take the values of the records
Store(f, s, cs, rv, l) ==
    /\ visible' = f.visible
    /\ fadingOut' = f.fadingOut
    /\ fadingIn' = f.fadingIn
    /\ fadeAlpha' = f.alpha
    /\ running' = f.running
    /\ tasks' = f.tasks
    /\ initialized' = s.initialized
    /\ cursorHandle' = s.handle
    /\ cursorFbId' = s.fb_id
    /\ cursorFd' = s.fd
    /\ buffer' = s.buffer
    /\ surface' = s.surface
    /\ cursorHot' = s.hot
    /\ calls' = cs
    /\ ret' = rv
    /\ last' = l
    /\ UNCHANGED <<config, resolved>>
\* the end of a call that runs from its entry to its return in one step
Commit(f, s, cs, rv, l) == Store(f, s, cs, rv, l) /\ UNCHANGED pending

\* the hide request the library builds: flags BO, everything else 0
HideCursor(crtc) == Cursor(DRM_MODE_CURSOR_BO, crtc, 0, 0, 0, 0, 0, 0, 0)
\* the owned buffer, presented at the display size
OwnCursorBufferSized(flags, crtc, x, y, handle, hot) ==
    Cursor(flags, crtc, x, y, BUFFER_SIZE, BUFFER_SIZE, handle, hot[1], hot[2])
OwnCursor(flags, crtc, x, y, handle, hot) ==
    Cursor(flags, crtc, x, y, CURSOR_DISPLAY_SIZE, CURSOR_DISPLAY_SIZE, handle,
           hot[1], hot[2])

\* ioctl(fd, request, arg); o: how a surface creation would end, r: the
\* driver's answer to the forwarded call; need: the value the call loaded
\* from INITIALIZED, negated
IoctlFrom(need, fd, request, arg, o, r) ==
    LET s0 == [Surf EXCEPT !.fd = IF DrmType(request) = DRM_IOCTL_BASE /\ cursorFd < 0
                                  THEN fd ELSE cursorFd]
        s1 == IF need THEN create_cursor_buffer(s0, fd, o) ELSE s0
        c1 == IF need THEN CreateCalls(fd, o) ELSE <<>>
        a2 == IF HasFlag(arg.flags, DRM_MODE_CURSOR_BO) /\ arg.handle # 0
              THEN [arg EXCEPT !.handle = s1.handle,
                               !.width = CURSOR_DISPLAY_SIZE,
                               !.height = CURSOR_DISPLAY_SIZE]
              ELSE arg
        l == [op |-> "ioctl",
              in |-> [fd |-> fd, request |-> request, arg |-> arg],
              driver |-> r]
    IN  /\ UNCHANGED <<planes, appliedHot, hotspotInit, screen>>
        /\ IF ~IsCursorRequest(request)
           THEN Store(Flags, s0, RealIoctlCalls(fd, request, arg), RealIoctlRet(r), l)
           ELSE IF need /\ ~s1.initialized THEN Store(Flags, s1, c1, 0, l)
           ELSE IF arg.isNull THEN Store(Flags, s1, c1, 0, l)
           ELSE Store(Flags, s1, c1 \o RealIoctlCalls(fd, request, a2),
                       RealIoctlRet(r), l)

\* the call run from its entry to its return in one step
Ioctl(fd, request, arg, o, r) ==
    IoctlFrom(~initialized, fd, request, arg, o, r) /\ UNCHANGED pending

\* drmModeSetCursor(fd, crtc_id, bo_handle, _width, _height)
DrmModeSetCursor(fd, crtc, bo_handle, o, r) ==
    LET need == ~initialized
        s1 == IF need THEN create_cursor_buffer(Surf, fd, o) ELSE Surf
        c1 == IF need THEN CreateCalls(fd, o) ELSE <<>>
        l == [op |-> "drmModeSetCursor",
              in |-> [fd |-> fd, crtc_id |-> crtc, bo_handle |-> bo_handle]]
    IN  /\ UNCHANGED <<planes, appliedHot, hotspotInit, screen>>
        /\ IF bo_handle = 0
           THEN Commit(Flags, Surf,
                       RealIoctlCalls(fd, DRM_IOCTL_MODE_CURSOR2, HideCursor(crtc)),
                       RealIoctlRet(r), l)
           ELSE IF need /\ ~s1.initialized THEN Commit(Flags, s1, c1, 0, l)
           ELSE Commit(Flags, s1,
                       c1 \o RealIoctlCalls(fd, DRM_IOCTL_MODE_CURSOR2,
                                OwnCursor(DRM_MODE_CURSOR_BO, crtc, 0, 0,
                                          s1.handle, s1.hot)),
                       RealIoctlRet(r), l)

\* Rust's integer division truncates toward zero
FloorDiv(a, b) == a \div b
TruncDiv(a, b) == IF a >= 0 THEN a \div b ELSE -((-a) \div b)
Abs(a) == IF a >= 0 THEN a ELSE -a

\* the hotspot drmModeSetCursor2 forwards and the applied hotspot it stores,
\* for the raw hotspot new: [final, applied]
SmoothHotspot(new) ==
    IF ~hotspotInit THEN [final |-> new, applied |-> new]
    ELSE IF config.smoothing
    THEN IF \/ Abs(new[1] - appliedHot[1]) > config.threshold
            \/ Abs(new[2] - appliedHot[2]) > config.threshold
         THEN LET h == <<appliedHot[1] + TruncDiv(new[1] - appliedHot[1], 3),
                         appliedHot[2] + TruncDiv(new[2] - appliedHot[2], 3)>>
              IN  [final |-> h, applied |-> h]
         ELSE [final |-> appliedHot, applied |-> appliedHot]
    ELSE [final |-> new, applied |-> new]

\* drmModeSetCursor2(fd, crtc_id, bo_handle, _width, _height, hot_x, hot_y)
DrmModeSetCursor2(fd, crtc, bo_handle, hot_x, hot_y, o, r) ==
    LET l == [op |-> "drmModeSetCursor2",
              in |-> [fd |-> fd, crtc_id |-> crtc, bo_handle |-> bo_handle,
                      hot_x |-> hot_x, hot_y |-> hot_y]]
        \* the hide branch
        fh == [Flags EXCEPT !.visible = FALSE]
        \* the show branch
        fs == [Flags EXCEPT !.visible = TRUE, !.fadingOut = FALSE,
                            !.alpha = FULL_ALPHA]
        need == ~initialized
        s1 == IF need THEN create_cursor_buffer(Surf, fd, o) ELSE Surf
        c1 == IF need THEN CreateCalls(fd, o) ELSE <<>>
        new == <<hot_x + s1.hot[1], hot_y + s1.hot[2]>>
        h == SmoothHotspot(new)
    IN  /\ UNCHANGED <<planes, screen>>
        /\ IF bo_handle = 0
           THEN /\ UNCHANGED <<appliedHot, hotspotInit>>
                /\ IF cursor_fade_enabled
                   THEN Commit([fh EXCEPT !.fadingOut = TRUE], Surf, <<>>, 0, l)
                   ELSE Commit(fh, Surf,
                               RealIoctlCalls(fd, DRM_IOCTL_MODE_CURSOR2,
                                              HideCursor(crtc)),
                               RealIoctlRet(r), l)
           ELSE IF need /\ ~s1.initialized
           THEN /\ UNCHANGED <<appliedHot, hotspotInit>>
                /\ Commit(fs, s1, c1, 0, l)
           ELSE /\ appliedHot' = h.applied
                /\ hotspotInit' = TRUE
                /\ Commit(fs, s1,
                          c1 \o RealIoctlCalls(fd, DRM_IOCTL_MODE_CURSOR2,
                                   OwnCursor(DRM_MODE_CURSOR_BO, crtc, 0, 0,
                                             s1.handle, h.final)),
                          RealIoctlRet(r), l)

\* current_alpha.saturating_sub(fade_speed)
SaturatingSub(a, b) == IF a > b THEN a - b ELSE 0

\* check_cursor_refresh / check_config_changed finding a refresh request or a
\* changed configuration file: the surface is rendered again
Rerender(s, found) ==
    IF found /\ s.initialized /\ s.buffer THEN render_cursor(s) ELSE s

\* drmModeMoveCursor(fd, crtc_id, x, y)
DrmModeMoveCursor(fd, crtc, x, y, changed, r) ==
    LET l == [op |-> "drmModeMoveCursor",
              in |-> [fd |-> fd, crtc_id |-> crtc, x |-> x, y |-> y]]
        s0 == Rerender(Surf, changed)
        new_alpha == SaturatingSub(fadeAlpha, config.fadeSpeed)
        s1 == apply_cursor_fade(render_cursor(s0), new_alpha, FULL_ALPHA)
        f1 == [Flags EXCEPT !.alpha = new_alpha]
    IN  /\ screen' = <<x, y>>
        /\ UNCHANGED <<planes, appliedHot, hotspotInit>>
        /\ IF fadingOut /\ fadeAlpha > 0
           THEN IF new_alpha = 0
                THEN Commit([f1 EXCEPT !.fadingOut = FALSE], s1,
                            RealIoctlCalls(fd, DRM_IOCTL_MODE_CURSOR2,
                                           HideCursor(crtc)),
                            RealIoctlRet(r), l)
                ELSE Commit(f1, s1,
                            RealIoctlCalls(fd, DRM_IOCTL_MODE_CURSOR2,
                                OwnCursor(DRM_MODE_CURSOR_BO + DRM_MODE_CURSOR_MOVE,
                                          crtc, x, y, s1.handle, appliedHot)),
                            RealIoctlRet(r), l)
           ELSE Commit(Flags, s0,
                       RealIoctlCalls(fd, DRM_IOCTL_MODE_CURSOR2,
                           Cursor(DRM_MODE_CURSOR_MOVE, crtc, x, y, 0, 0, 0, 0, 0)),
                       RealIoctlRet(r), l)

\* a call to the real drmModeGetPlane / drmModeObjectGetProperties
PlaneCall(fn, fd, id) == [fn |-> fn, fd |-> fd, obj |-> id]

\* drmModeGetPlane(fd, plane_id); the result is the plane id for a plane
\* pointer, 0 for null
DrmModeGetPlane(fd, plane_id) ==
    LET l == [op |-> "drmModeGetPlane",
              in |-> [fd |-> fd, plane_id |-> plane_id]]
        s0 == [Surf EXCEPT !.fd = IF cursorFd < 0 THEN fd ELSE cursorFd]
        exists == plane_id \in DriverObjects
        g == <<PlaneCall("drmModeGetPlane", fd, plane_id)>>
        q == <<PlaneCall("drmModeObjectGetProperties", fd, plane_id)>>
    IN  /\ UNCHANGED <<appliedHot, hotspotInit, screen>>
        /\ IF ~resolved.getPlane
           THEN planes' = planes /\ Commit(Flags, s0, <<>>, 0, l)
           ELSE IF ~exists
           THEN planes' = planes /\ Commit(Flags, s0, g, 0, l)
           ELSE IF ~resolved.getProps
           THEN planes' = planes /\ Commit(Flags, s0, g, plane_id, l)
           ELSE /\ planes' = RecordPlane(planes, plane_id,
                                         ScanProps(DriverProps(plane_id)))
                /\ Commit(Flags, s0, g \o q, plane_id, l)

\* the real drmModeAtomicAddProperty: the call it receives and the value the
\* intercepted call returns, or no call and -1 when it is unresolved
RealAtomicCalls(obj, prop, value) ==
    IF resolved.atomicAdd THEN <<AtomicCall(obj, prop, value)>> ELSE <<>>
RealAtomicRet(r) == IF resolved.atomicAdd THEN r ELSE -1

\* the show branch of drmModeAtomicAddProperty on the flags
AtomicShow(f) ==
    LET f1 == [f EXCEPT !.fadingOut = FALSE, !.visible = TRUE] IN
    IF config.fadeInEnabled /\ ~f1.fadingIn /\ f1.alpha < FULL_ALPHA
    THEN spawn_fade_in_thread([f1 EXCEPT !.fadingIn = TRUE,
                                         !.alpha = FADE_IN_START_ALPHA])
    ELSE [f1 EXCEPT !.alpha = FULL_ALPHA]

\* the value the hide branch forwards: the owned framebuffer while a fade it
\* has just started is to be seen, else the hide itself
HideValueAlwaysZero(startFade, s) == 0
HideValue(startFade, s) == IF startFade /\ s.fb_id # 0 THEN s.fb_id ELSE 0
\* the value the show branch forwards when the owned framebuffer exists
ShowValueCompositor(s, value) == value
ShowValue(s, value) == s.fb_id

\* the FB_ID branch of drmModeAtomicAddProperty: [flags, value, done]; done is
\* FALSE when the branch returns nothing and control falls to the later checks
AtomicFbId(f, s, value) ==
    LET fh == [f EXCEPT !.fadingIn = FALSE, !.visible = FALSE]
        startFade == cursor_fade_enabled /\ ~fh.fadingOut
        fo == IF startFade
              THEN spawn_fade_out_thread([fh EXCEPT !.fadingOut = TRUE])
              ELSE fh
        fsh == AtomicShow(IF value = 0 THEN fo ELSE f)
    IN  IF value = 0 /\ resolved.atomicAdd
        THEN [flags |-> fo, value |-> HideValue(startFade, s), done |-> TRUE]
        ELSE IF s.fb_id # 0 /\ resolved.atomicAdd
        THEN [flags |-> fsh, value |-> ShowValue(s, value), done |-> TRUE]
        ELSE [flags |-> fsh, value |-> value, done |-> FALSE]

\* the value forwarded for a property the registry does not track
PassThroughZero(value) == 0
PassThrough(value) == value

\* drmModeAtomicAddProperty(req, object_id, property_id, value); found: a
\* refresh request or a changed configuration file is found on this call
DrmModeAtomicAddProperty(object_id, property_id, value, found, o, r) ==
    LET l == [op |-> "drmModeAtomicAddProperty",
              in |-> [object_id |-> object_id, property_id |-> property_id,
                      value |-> value]]
        s0 == Rerender(Surf, found)
        known == get_cursor_plane_index(planes, object_id) # 0
        det == IF known THEN [found |-> TRUE, planes |-> planes]
               ELSE try_detect_cursor_plane(planes, cursorFd, object_id)
        q == IF ~known /\ cursorFd >= 0 /\ resolved.getProps
             THEN <<PlaneCall("drmModeObjectGetProperties", cursorFd, object_id)>>
             ELSE <<>>
        need == det.found /\ ~initialized /\ cursorFd >= 0
        s1 == IF need THEN create_cursor_buffer(s0, cursorFd, o) ELSE s0
        c1 == q \o (IF need THEN CreateCalls(cursorFd, o) ELSE <<>>)
        idx == get_cursor_plane_index(det.planes, object_id)
        e == det.planes[idx]
        fb == AtomicFbId(Flags, s1, value)
        isFb == e.fb # 0 /\ property_id = e.fb
        f2 == IF isFb THEN fb.flags ELSE Flags
        out == IF isFb /\ fb.done THEN fb.value
               ELSE IF e.src_w # 0 /\ property_id = e.src_w
               THEN CURSOR_DISPLAY_SIZE * 65536
               ELSE IF e.src_h # 0 /\ property_id = e.src_h
               THEN CURSOR_DISPLAY_SIZE * 65536
               ELSE IF e.crtc_w # 0 /\ property_id = e.crtc_w
               THEN CURSOR_DISPLAY_SIZE
               ELSE IF e.crtc_h # 0 /\ property_id = e.crtc_h
               THEN CURSOR_DISPLAY_SIZE
               ELSE PassThrough(value)
    IN  /\ UNCHANGED <<appliedHot, hotspotInit, screen>>
        /\ planes' = det.planes
        /\ IF ~det.found
           THEN Commit(Flags, s0, q \o RealAtomicCalls(object_id, property_id, value),
                       RealAtomicRet(r), l)
           ELSE IF idx = 0
           THEN Commit(Flags, s1,
                       c1 \o RealAtomicCalls(object_id, property_id, value),
                       RealAtomicRet(r), l)
           ELSE Commit(f2, s1, c1 \o RealAtomicCalls(object_id, property_id, out),
                       RealAtomicRet(r), l)

(***************************************************************************)
(* The fade threads (the closures of spawn_fade_out_thread and             *)
(* spawn_fade_in_thread), one action per step.                             *)
(***************************************************************************)
TaskLast(t) ==
    [op |-> "task", in |-> [slot |-> t, pc |-> tasks[t].pc, kind |-> tasks[t].kind]]
\* a thread step changes the thread, the flags f and the surface s
TaskCommit(t, task, f, s) ==
    /\ Commit([f EXCEPT !.tasks = [tasks EXCEPT ![t] = task]], s, <<>>, 0, TaskLast(t))
    /\ UNCHANGED <<planes, appliedHot, hotspotInit, screen>>

\* the governing flag of a thread
Governing(kind) == IF kind = "out" THEN fadingOut ELSE fadingIn
\* while alpha > 0.0 / while alpha < 255.0
MoreToFade(task) ==
    IF task.kind = "out" THEN task.alpha > 0 ELSE task.alpha < FULL_ALPHA
\* (alpha - step).max(0.0) / (alpha + step).min(255.0)
NextAlpha(task) ==
    IF task.kind = "out"
    THEN (IF task.alpha - task.step > 0 THEN task.alpha - task.step ELSE 0)
    ELSE (IF task.alpha + task.step < FULL_ALPHA THEN task.alpha + task.step
          ELSE FULL_ALPHA)

\* the loop head: the while test, the test of the governing flag, the new alpha
TaskLoop(t) ==
    /\ tasks[t].pc = "loop"
    /\ IF MoreToFade(tasks[t]) /\ Governing(tasks[t].kind)
       THEN TaskCommit(t, [tasks[t] EXCEPT !.pc = "render",
                                           !.alpha = NextAlpha(tasks[t])],
                       Flags, Surf)
       ELSE TaskCommit(t, [tasks[t] EXCEPT !.pc = "final"], Flags, Surf)

\* render_cursor() in the loop body
TaskRender(t) ==
    /\ tasks[t].pc = "render"
    /\ TaskCommit(t, [tasks[t] EXCEPT !.pc = "fade"], Flags, render_cursor(Surf))

\* apply_cursor_fade(alpha) in the loop body, then the sleep
TaskFade(t) ==
    /\ tasks[t].pc = "fade"
    /\ TaskCommit(t, [tasks[t] EXCEPT !.pc = "loop"], Flags,
                  apply_cursor_fade(Surf, tasks[t].alpha, 1))

\* after the loop: if CURSOR_FADING_OUT.load() / if CURSOR_FADING_IN.load()
TaskFinal(t) ==
    /\ tasks[t].pc = "final"
    /\ TaskCommit(t, [tasks[t] EXCEPT !.pc = IF Governing(tasks[t].kind)
                                            THEN "clearflag" ELSE "exit"],
                  Flags, Surf)

\* CURSOR_FADING_OUT.store(false) / CURSOR_FADING_IN.store(false)
TaskClearFlag(t) ==
    /\ tasks[t].pc = "clearflag"
    /\ TaskCommit(t, [tasks[t] EXCEPT !.pc = "setalpha"],
                  IF tasks[t].kind = "out" THEN [Flags EXCEPT !.fadingOut = FALSE]
                  ELSE [Flags EXCEPT !.fadingIn = FALSE],
                  Surf)

\* CURSOR_FADE_ALPHA.store(0) / CURSOR_FADE_ALPHA.store(255)
TaskSetAlpha(t) ==
    /\ tasks[t].pc = "setalpha"
    /\ TaskCommit(t, [tasks[t] EXCEPT !.pc = "finish"],
                  [Flags EXCEPT !.alpha = IF tasks[t].kind = "out" THEN 0
                                          ELSE FULL_ALPHA],
                  Surf)

\* the buffer cleared (fade-out) / rendered once more (fade-in)
TaskFinish(t) ==
    /\ tasks[t].pc = "finish"
    /\ TaskCommit(t, [tasks[t] EXCEPT !.pc = "exit"], Flags,
                  IF tasks[t].kind = "out" THEN clear_buffer(Surf)
                  ELSE render_cursor(Surf))

\* FADE_THREAD_RUNNING.store(false), the end of the thread
TaskExit(t) ==
    /\ tasks[t].pc = "exit"
    /\ TaskCommit(t, DeadTask, [Flags EXCEPT !.running = FALSE], Surf)

TaskStep(t) ==
    \/ TaskLoop(t)
    \/ TaskRender(t)
    \/ TaskFade(t)
    \/ TaskFinal(t)
    \/ TaskClearFlag(t)
    \/ TaskSetAlpha(t)
    \/ TaskFinish(t)
    \/ TaskExit(t)

(***************************************************************************)
(* The specification.                                                      *)
(***************************************************************************)
\* the inputs a call does not read are not enumerated: the outcome of a surface
\* creation when the surface exists, the argument behind a request that is
\* passed through unread, a refresh when there is no surface to render
Outcomes ==
    IF initialized THEN {[fail |-> "addfb", handle |-> 0, fb_id |-> 0]}
    ELSE CreateOutcomes
ArgsOf(request) == IF IsCursorRequest(request) THEN CompositorArgs ELSE {NullArg}
Founds == IF initialized /\ buffer THEN BOOLEAN ELSE {FALSE}

CallIoctl ==
    \E fd \in Fds, request \in Requests, o \in Outcomes, r \in DriverRets :
        \E arg \in ArgsOf(request) : Ioctl(fd, request, arg, o, r)
CallSetCursor ==
    \E fd \in Fds, crtc \in CrtcIds, h \in CompositorHandles,
       o \in Outcomes, r \in DriverRets :
        DrmModeSetCursor(fd, crtc, h, o, r)
CallSetCursor2 ==
    \E fd \in Fds, crtc \in CrtcIds, h \in CompositorHandles,
       hx \in HotInputs, hy \in HotInputs, o \in Outcomes, r \in DriverRets :
        DrmModeSetCursor2(fd, crtc, h, hx, hy, o, r)
CallMoveCursor ==
    \E fd \in Fds, crtc \in CrtcIds, x \in Coords, y \in Coords,
       changed \in Founds, r \in DriverRets :
        DrmModeMoveCursor(fd, crtc, x, y, changed, r)
CallGetPlane ==
    \E fd \in Fds, id \in CompositorObjects : DrmModeGetPlane(fd, id)
CallAtomicAddProperty ==
    \E obj \in CompositorObjects, prop \in PropertyIds, value \in CompositorFbs,
       found \in Founds, o \in Outcomes, r \in DriverRets :
        DrmModeAtomicAddProperty(obj, prop, value, found, o, r)
RunTask == \E t \in 1..MaxTasks : TaskStep(t)

Next ==
    \/ CallIoctl
    \/ CallSetCursor
    \/ CallSetCursor2
    \/ CallMoveCursor
    \/ CallGetPlane
    \/ CallAtomicAddProperty
    \/ RunTask

Spec == Init /\ [][Next]_vars

(***************************************************************************)
(* Vocabulary of the properties.                                           *)
(***************************************************************************)
Hidden == IsHidden(Flags)
Visible == IsVisible(Flags)
FadingOut == IsFadingOut(Flags)
FadingIn == IsFadingIn(Flags)

\* prop is the FB_ID property the registry ps holds for the plane obj
IsFbProp(ps, obj, prop) ==
    LET idx == get_cursor_plane_index(ps, obj) IN
    idx # 0 /\ ps[idx].fb # 0 /\ ps[idx].fb = prop

\* a call that tells the driver to clear the cursor image
IsHideCall(c) ==
    \/ /\ c.fn = "ioctl"
       /\ IsCursorRequest(c.request)
       /\ ~c.arg.isNull
       /\ HasFlag(c.arg.flags, DRM_MODE_CURSOR_BO)
       /\ c.arg.handle = 0
    \/ /\ c.fn = "atomic"
       /\ IsFbProp(planes, c.obj, c.prop)
       /\ c.value = 0
ForwardsHide(cs) == \E i \in 1..Len(cs) : IsHideCall(cs[i])

\* the last step was an intercepted call carrying a hide / a show signal
LegacySignal(handleIsZero) ==
    \/ /\ last.op = "ioctl"
       /\ IsCursorRequest(last.in.request)
       /\ ~last.in.arg.isNull
       /\ HasFlag(last.in.arg.flags, DRM_MODE_CURSOR_BO)
       /\ (last.in.arg.handle = 0) = handleIsZero
    \/ /\ last.op \in {"drmModeSetCursor", "drmModeSetCursor2"}
       /\ (last.in.bo_handle = 0) = handleIsZero
AtomicSignal(valueIsZero) ==
    /\ last.op = "drmModeAtomicAddProperty"
    /\ IsFbProp(planes, last.in.object_id, last.in.property_id)
    /\ (last.in.value = 0) = valueIsZero
HideSignal == LegacySignal(TRUE) \/ AtomicSignal(TRUE)
ShowSignal == LegacySignal(FALSE) \/ AtomicSignal(FALSE)

(***************************************************************************)
(* C1: at most one fade thread is alive at any time, and the running flag  *)
(* is set exactly while one is alive: a thread starts only after winning   *)
(* the swap on the flag and clears it as its last action.                  *)
(***************************************************************************)
C1_OneAnimationTask ==
    /\ Cardinality(AliveTasks) <= 1
    /\ running <=> AliveTasks # {}
\* a fade-out was requested while the fade-in thread was alive, and refused
C1_Witness ==
    /\ AtomicSignal(TRUE)
    /\ fadingOut
    /\ \E t \in AliveTasks : tasks[t].kind = "in"

(***************************************************************************)
(* C10: the visual state before any intercepted call.  The claim says      *)
(* Hidden; the static initialisers give Visible at full alpha.             *)
(***************************************************************************)
C10_InitiallyHidden == last.op = "init" => Hidden
C10_InitiallyVisible ==
    last.op = "init" =>
        Visible /\ fadeAlpha = FULL_ALPHA /\ ~running /\ AliveTasks = {}
C10_Witness == last.op = "init" /\ visible /\ ~initialized

(***************************************************************************)
(* C2: drmModeAtomicAddProperty on a registered cursor plane, on its FB_ID *)
(* property, with value 0, fade-out enabled, the state Visible, the owned  *)
(* surface existing and the real function resolved: afterwards the state   *)
(* is FadingOut and the one real call of the invocation carries the owned  *)
(* framebuffer id.                                                         *)
(***************************************************************************)
C2_AtomicHideStartsFade ==
    [][(/\ last'.op = "drmModeAtomicAddProperty"
        /\ IsFbProp(planes, last'.in.object_id, last'.in.property_id)
        /\ last'.in.value = 0
        /\ cursor_fade_enabled
        /\ Visible
        /\ cursorFbId # 0
        /\ resolved.atomicAdd)
       => (/\ FadingOut'
           /\ calls' = <<AtomicCall(last'.in.object_id, last'.in.property_id,
                                    cursorFbId)>>)]_vars
\* the state after such a call: the fade has started at full alpha and the
\* owned framebuffer went out in place of the 0
C2_Witness ==
    /\ AtomicSignal(TRUE)
    /\ cursor_fade_enabled
    /\ FadingOut
    /\ fadeAlpha = FULL_ALPHA
    /\ cursorFbId # 0
    /\ calls = <<AtomicCall(last.in.object_id, last.in.property_id, cursorFbId)>>
    /\ \E t \in AliveTasks : tasks[t].kind = "out" /\ tasks[t].pc = "loop"

(***************************************************************************)
(* Steps of the properties below.                                          *)
(***************************************************************************)
\* this step is a drmModeMoveCursor call / a step of a fade thread
IsMoveStep == last'.op = "drmModeMoveCursor"
IsTaskStep == last'.op = "task"

(***************************************************************************)
(* C3: with fade-out disabled and the state Visible, a hide signal on any  *)
(* entry point (raw cursor ioctl, drmModeSetCursor, drmModeSetCursor2,     *)
(* atomic FB_ID property) leaves the state Hidden and forwards a real hide *)
(* on that same call.                                                      *)
(***************************************************************************)
C3_HideWithoutFade ==
    [][(HideSignal' /\ ~cursor_fade_enabled /\ Visible)
       => (Hidden' /\ ForwardsHide(calls)')]_vars

(***************************************************************************)
(* C4: with fade-out enabled, a hide signal on any entry point sets the    *)
(* state to FadingOut and forwards no hide to the driver on that call.     *)
(***************************************************************************)
C4_HideWithFade ==
    [][(HideSignal' /\ cursor_fade_enabled)
       => (FadingOut' /\ ~ForwardsHide(calls)')]_vars

(***************************************************************************)
(* C5: while a fade-out is in progress (FadingOut, alpha above 0), before  *)
(* and after a step, the step forwards no hide to the driver, a repeated   *)
(* hide signal included.                                                   *)
(***************************************************************************)
C5_NoHideDuringFade ==
    [][(FadingOut /\ fadeAlpha > 0 /\ FadingOut' /\ fadeAlpha' > 0)
       => ~ForwardsHide(calls)']_vars

(***************************************************************************)
(* C6: the step that completes a fade-out, the drmModeMoveCursor call that *)
(* brings alpha to 0 on the legacy path and the fade-out thread's store of *)
(* alpha 0 on the atomic path alike, leaves the state Hidden and forwards  *)
(* a real hide to the driver.                                              *)
(***************************************************************************)
C6_CompletionForwardsHide ==
    [][(\/ IsMoveStep /\ fadingOut /\ fadeAlpha > 0 /\ fadeAlpha' = 0
        \/ IsTaskStep /\ last'.in.kind = "out" /\ last'.in.pc = "setalpha")
       => (Hidden' /\ ForwardsHide(calls)')]_vars

(***************************************************************************)
(* C7: a show signal on any entry point clears the fading-out flag and,    *)
(* unless fade-in is enabled and alpha is below 255, sets alpha to 255 and *)
(* the state to Visible.                                                   *)
(***************************************************************************)
C7_ShowCancelsFade ==
    [][ShowSignal'
       => (/\ ~fadingOut'
           /\ ~(config.fadeInEnabled /\ fadeAlpha < FULL_ALPHA)
                 => (fadeAlpha' = FULL_ALPHA /\ Visible'))]_vars

(***************************************************************************)
(* C8: while the state stays FadingOut alpha never increases, and on the   *)
(* legacy path each drmModeMoveCursor call lowers alpha by the fade speed, *)
(* stopping at 0 (so ceil(255 / speed) calls reach 0), with the state      *)
(* Hidden once alpha is 0.                                                 *)
(***************************************************************************)
C8_FadeOutMonotone ==
    [][(FadingOut /\ ~ShowSignal')
       => (/\ FadingOut' => fadeAlpha' <= fadeAlpha
           /\ (IsMoveStep /\ fadeAlpha > 0)
                 => (/\ fadeAlpha' = SaturatingSub(fadeAlpha, config.fadeSpeed)
                     /\ fadeAlpha' = 0 => Hidden'))]_vars

(***************************************************************************)
(* C9: a show signal on the atomic path with fade-in enabled and alpha     *)
(* below 255 puts the state in FadingIn, and while the state stays         *)
(* FadingIn without a hide signal alpha never decreases.                   *)
(***************************************************************************)
C9_FadeInMonotone ==
    [][/\ (AtomicSignal(FALSE)' /\ config.fadeInEnabled /\ fadeAlpha < FULL_ALPHA
           /\ cursorFbId # 0 /\ resolved.atomicAdd)
          => FadingIn'
       /\ (FadingIn /\ FadingIn' /\ ~HideSignal')
          => fadeAlpha' >= fadeAlpha]_vars

\* the real drmModeAtomicAddProperty calls among cs
AtomicCalls(cs) == SelectSeq(cs, LAMBDA c : c.fn = "atomic")

(***************************************************************************)
(* C11: after a drmModeAtomicAddProperty call on a registered cursor       *)
(* plane, on its FB_ID property, with a nonzero value, the owned surface   *)
(* existing: the one call forwarded carries the owned framebuffer id, not  *)
(* the compositor's.                                                       *)
(***************************************************************************)
C11_OwnFramebufferForwarded ==
    (AtomicSignal(FALSE) /\ cursorFbId # 0)
        => AtomicCalls(calls) =
               <<AtomicCall(last.in.object_id, last.in.property_id, cursorFbId)>>
\* such a call, made with a framebuffer id of the compositor's
C11_Witness ==
    /\ AtomicSignal(FALSE)
    /\ cursorFbId # 0
    /\ last.in.value # cursorFbId
    /\ initialized
    /\ AtomicCalls(calls) =
           <<AtomicCall(last.in.object_id, last.in.property_id, cursorFbId)>>

(***************************************************************************)
(* The display-size specification: the compositor of Spec, committing      *)
(* every property of its cursor plane, with fade-out enabled and fade-in   *)
(* disabled.                                                               *)
(***************************************************************************)
AllPropertyIds == {PlaneProps(0)[i][1] : i \in 1..Len(PlaneProps(0))}
InitDisplay == Init /\ config.fadeEnabled /\ ~config.fadeInEnabled
CommitAnyProperty ==
    \E obj \in CompositorObjects, prop \in AllPropertyIds, value \in CompositorFbs,
       found \in Founds, o \in Outcomes, r \in DriverRets :
        DrmModeAtomicAddProperty(obj, prop, value, found, o, r)
NextDisplay ==
    \/ CallIoctl
    \/ CallSetCursor
    \/ CallSetCursor2
    \/ CallMoveCursor
    \/ CallGetPlane
    \/ CommitAnyProperty
    \/ RunTask
SpecDisplay == InitDisplay /\ [][NextDisplay]_vars

\* a forwarded legacy cursor-set that names a buffer
SetsBuffer(c) ==
    /\ c.fn = "ioctl"
    /\ IsCursorRequest(c.request)
    /\ ~c.arg.isNull
    /\ HasFlag(c.arg.flags, DRM_MODE_CURSOR_BO)
    /\ c.arg.handle # 0
\* the registry entry of a forwarded property call, when there is one
EntryOf(c) == planes[get_cursor_plane_index(planes, c.obj)]
FixedPoint(n) == n * 65536

(***************************************************************************)
(* C12: every forwarded legacy cursor-set that names a buffer names the    *)
(* owned one at width = height = 64, and every forwarded SRC_W / SRC_H of  *)
(* a registered cursor plane is 64 in 16.16 fixed point, every CRTC_W /    *)
(* CRTC_H is 64: never the 256 of the buffer, never the compositor's size. *)
(***************************************************************************)
C12_DisplaySize ==
    \A i \in 1..Len(calls) :
        LET c == calls[i] IN
        /\ SetsBuffer(c)
              => /\ c.arg.handle = cursorHandle
                 /\ c.arg.width = CURSOR_DISPLAY_SIZE
                 /\ c.arg.height = CURSOR_DISPLAY_SIZE
        /\ (c.fn = "atomic" /\ get_cursor_plane_index(planes, c.obj) # 0)
              => /\ (c.prop # 0 /\ c.prop \in {EntryOf(c).src_w, EntryOf(c).src_h})
                       => c.value = FixedPoint(CURSOR_DISPLAY_SIZE)
                 /\ (c.prop # 0 /\ c.prop \in {EntryOf(c).crtc_w, EntryOf(c).crtc_h})
                       => c.value = CURSOR_DISPLAY_SIZE
\* a commit of SRC_H with the compositor's own size went out as 64 << 16
C12_Witness ==
    /\ last.op = "drmModeAtomicAddProperty"
    /\ get_cursor_plane_index(planes, last.in.object_id) # 0
    /\ last.in.property_id = planes[get_cursor_plane_index(planes, last.in.object_id)].src_h
    /\ last.in.value # FixedPoint(CURSOR_DISPLAY_SIZE)
    /\ AtomicCalls(calls) =
           <<AtomicCall(last.in.object_id, last.in.property_id,
                        FixedPoint(CURSOR_DISPLAY_SIZE))>>

(***************************************************************************)
(* The registry specification: a device with nine cursor planes and a      *)
(* primary plane, fades disabled.  The compositor enumerates the planes in *)
(* the driver's order with drmModeGetPlane, a plane again as often as it   *)
(* likes, and commits properties of the last cursor plane and of the       *)
(* primary plane at any time.                                              *)
(***************************************************************************)
CommittedPlanes == {48, PrimaryPlane}
InitPlanes == Init /\ ~config.fadeEnabled /\ ~config.fadeInEnabled
Registered(ps, id) == get_cursor_plane_index(ps, id) # 0
EnumeratePlane ==
    \E fd \in Fds, id \in DriverObjects :
        /\ \A j \in CursorPlanes : j < id => Registered(planes, j)
        /\ DrmModeGetPlane(fd, id)
CommitPlane ==
    \E obj \in CommittedPlanes, prop \in AllPropertyIds, value \in CompositorFbs,
       o \in Outcomes, r \in DriverRets :
        DrmModeAtomicAddProperty(obj, prop, value, FALSE, o, r)
NextPlanes == EnumeratePlane \/ CommitPlane
SpecPlanes == InitPlanes /\ [][NextPlanes]_vars

\* this step is a drmModeAtomicAddProperty call
IsAtomicStep == last'.op = "drmModeAtomicAddProperty"
\* the properties the registry ps tracks for the plane obj
TrackedProps(ps, obj) ==
    LET e == ps[get_cursor_plane_index(ps, obj)] IN
    {e.fb, e.src_w, e.src_h, e.crtc_w, e.crtc_h} \ {0}
\* the one real call a pass-through of this step makes
Unmodified ==
    AtomicCalls(calls') =
        <<AtomicCall(last'.in.object_id, last'.in.property_id, last'.in.value)>>

(***************************************************************************)
(* C13: a drmModeAtomicAddProperty call for an object that is not a cursor *)
(* plane, or for a property of a registered cursor plane that the registry *)
(* does not track, is forwarded exactly once with object id, property id   *)
(* and value unchanged, and leaves the visibility, the fade flags, alpha   *)
(* and the applied hotspot as they were.                                   *)
(***************************************************************************)
C13_AtomicPassThrough ==
    [][(/\ IsAtomicStep
        /\ \/ last'.in.object_id \notin CursorPlanes
           \/ /\ Registered(planes', last'.in.object_id)
              /\ last'.in.property_id
                    \notin TrackedProps(planes', last'.in.object_id))
       => (/\ Unmodified
           /\ UNCHANGED <<visible, fadingOut, fadingIn, fadeAlpha, appliedHot>>)]_vars
\* a commit of an untracked property of a registered cursor plane, made
\* with the cursor visible, went out as it came
C13_Witness ==
    /\ last.op = "drmModeAtomicAddProperty"
    /\ Registered(planes, last.in.object_id)
    /\ last.in.property_id \notin TrackedProps(planes, last.in.object_id)
    /\ last.in.value # 0
    /\ visible
    /\ initialized
    /\ AtomicCalls(calls) =
           <<AtomicCall(last.in.object_id, last.in.property_id, last.in.value)>>

(***************************************************************************)
(* The pass-through specification: ioctls of every kind on two file        *)
(* descriptors, the driver answering 0 or -1, with drmModeSetCursor2 calls *)
(* in between.                                                             *)
(***************************************************************************)
\* a request that is not a DRM request (type 'T', not 'd')
NonDrmRequest == <<0, 21505>>
PassFds == {3, 4}
PassRets == {0, -1}
PassRequests ==
    {DRM_IOCTL_MODE_CURSOR2, DRM_IOCTL_MODE_DESTROY_DUMB, NonDrmRequest}
PassArgs == CompositorArgs \cup {NullArg}
AnyIoctl ==
    \E fd \in PassFds, request \in PassRequests, arg \in PassArgs,
       o \in Outcomes, r \in PassRets :
        Ioctl(fd, request, arg, o, r)
NextIoctl == AnyIoctl \/ CallSetCursor2
SpecIoctl == Init /\ [][NextIoctl]_vars

(***************************************************************************)
(* C14: an ioctl whose request is neither legacy cursor-set code goes to   *)
(* the real ioctl exactly once with fd, request and argument unchanged,    *)
(* returns the driver's answer, and changes nothing of the library's state *)
(* except the DRM fd, recorded when the request is a DRM request and no fd *)
(* was known.                                                              *)
(***************************************************************************)
C14_IoctlPassThrough ==
    [][(last'.op = "ioctl" /\ ~IsCursorRequest(last'.in.request))
       => (/\ calls' = <<IoctlCall(last'.in.fd, last'.in.request, last'.in.arg)>>
           /\ ret' = last'.driver
           /\ cursorFd' = IF DrmType(last'.in.request) = DRM_IOCTL_BASE /\ cursorFd < 0
                          THEN last'.in.fd ELSE cursorFd
           /\ UNCHANGED <<visible, fadingOut, fadingIn, fadeAlpha, running, tasks,
                          initialized, cursorHandle, cursorFbId, buffer, surface,
                          planes, cursorHot, appliedHot, hotspotInit, screen,
                          config, resolved>>)]_vars
\* a DRM request that is not a cursor-set passed through with a non-null
\* argument, the driver answered -1, and its fd was recorded
C14_Witness ==
    /\ last.op = "ioctl"
    /\ ~IsCursorRequest(last.in.request)
    /\ DrmType(last.in.request) = DRM_IOCTL_BASE
    /\ ~last.in.arg.isNull
    /\ last.driver = -1
    /\ ret = -1
    /\ cursorFd = last.in.fd
    /\ ~initialized
    /\ calls = <<IoctlCall(last.in.fd, last.in.request, last.in.arg)>>

\* the object a drmModeGetPlane / drmModeAtomicAddProperty step names
ObjectOf(l) ==
    IF l.op = "drmModeGetPlane" THEN l.in.plane_id
    ELSE IF l.op = "drmModeAtomicAddProperty" THEN l.in.object_id
    ELSE 0
\* cs holds the driver's property enumeration for the object id
Enumerates(cs, id) ==
    \E i \in 1..Len(cs) : cs[i].fn = "drmModeObjectGetProperties" /\ cs[i].obj = id

(***************************************************************************)
(* C15: the property enumeration of an object is issued at most once: a    *)
(* drmModeGetPlane or drmModeAtomicAddProperty call naming an object that  *)
(* is already registered, or that the step before has just enumerated,     *)
(* does not enumerate it again.                                            *)
(***************************************************************************)
C15_EnumeratedOnce ==
    [][(/\ ObjectOf(last') # 0
        /\ \/ Registered(planes, ObjectOf(last'))
           \/ Enumerates(calls, ObjectOf(last')))
       => ~Enumerates(calls', ObjectOf(last'))]_vars

\* this step names a cursor-type plane that the registry does not hold
NamesUnregistered ==
    /\ ObjectOf(last') \in CursorPlanes
    /\ ~Registered(planes, ObjectOf(last'))

(***************************************************************************)
(* C16: the registry never holds more than 8 entries, its plane ids are    *)
(* pairwise distinct, and a step only appends: every entry stays as it is. *)
(* With 8 planes registered, a call naming a 9th cursor-type plane leaves  *)
(* the registry as it is, and a drmModeAtomicAddProperty call for that     *)
(* plane is forwarded with its value unmodified, whatever the property.    *)
(***************************************************************************)
C16_RegistryBounded ==
    [][/\ Len(planes') <= REGISTRY_CAPACITY
       /\ \A i, j \in 1..Len(planes') : planes'[i].id = planes'[j].id => i = j
       /\ Len(planes) <= Len(planes')
       /\ \A i \in 1..Len(planes) : planes'[i] = planes[i]
       /\ (Len(planes) = REGISTRY_CAPACITY /\ NamesUnregistered)
             => /\ planes' = planes
                /\ IsAtomicStep => Unmodified]_vars
\* the 9th cursor plane's FB_ID commit went out with the compositor's framebuffer
C16_Witness ==
    /\ Len(planes) = REGISTRY_CAPACITY
    /\ last.op = "drmModeAtomicAddProperty"
    /\ last.in.object_id \in CursorPlanes
    /\ ~Registered(planes, last.in.object_id)
    /\ last.in.property_id = planes[1].fb
    /\ last.in.value # 0
    /\ cursorFbId # 0
    /\ AtomicCalls(calls) =
           <<AtomicCall(last.in.object_id, last.in.property_id, last.in.value)>>

\* the value drmModeAtomicAddProperty is to forward for a tracked property of
\* the registry entry e, the owned framebuffer being fb
Substituted(e, prop, value, fb) ==
    IF prop = e.fb THEN (IF value # 0 /\ fb # 0 THEN fb ELSE value)
    ELSE IF prop \in {e.src_w, e.src_h} THEN FixedPoint(CURSOR_DISPLAY_SIZE)
    ELSE IF prop \in {e.crtc_w, e.crtc_h} THEN CURSOR_DISPLAY_SIZE
    ELSE value

(***************************************************************************)
(* C17: the first drmModeAtomicAddProperty call naming a cursor-type plane *)
(* that is not registered, a DRM fd being captured and fewer than 8 planes *)
(* registered, registers the plane with its five property ids, and that    *)
(* same call already forwards the substituted value: 64 in 16.16 for       *)
(* SRC_W / SRC_H, 64 for CRTC_W / CRTC_H, the owned framebuffer for a      *)
(* nonzero FB_ID once the surface exists.                                  *)
(***************************************************************************)
C17_LazyDetection ==
    [][(/\ IsAtomicStep
        /\ NamesUnregistered
        /\ cursorFd >= 0
        /\ Len(planes) < REGISTRY_CAPACITY
        /\ last'.in.property_id \in AllPropertyIds)
       => (/\ Registered(planes', last'.in.object_id)
           /\ TrackedProps(planes', last'.in.object_id) = {21, 22, 23, 24, 25}
           /\ (last'.in.value # 0 \/ ~IsFbProp(planes', last'.in.object_id,
                                               last'.in.property_id))
                 => AtomicCalls(calls') =
                        <<AtomicCall(last'.in.object_id, last'.in.property_id,
                              Substituted(planes'[Len(planes')],
                                          last'.in.property_id, last'.in.value,
                                          cursorFbId'))>>)]_vars
\* a first commit on a plane drmModeGetPlane never saw: enumerated, registered,
\* the surface created and the owned framebuffer forwarded, all in one call
C17_Witness ==
    /\ last.op = "drmModeAtomicAddProperty"
    /\ Enumerates(calls, last.in.object_id)
    /\ Registered(planes, last.in.object_id)
    /\ planes[Len(planes)].id = last.in.object_id
    /\ IsFbProp(planes, last.in.object_id, last.in.property_id)
    /\ last.in.value # 0
    /\ cursorFbId # 0
    /\ Len(calls) > 2
    /\ AtomicCalls(calls) =
           <<AtomicCall(last.in.object_id, last.in.property_id, cursorFbId)>>

(***************************************************************************)
(* The hotspot specification: drmModeSetCursor2 calls with hotspots on     *)
(* both sides of the applied one, near and far, for two cursor designs,    *)
(* fades disabled.                                                         *)
(***************************************************************************)
SmoothInputs == {-14, 0, 4, 30}
SmoothInputsY == {-14, 0}
HotspotConfigs ==
    [fadeEnabled : {FALSE}, fadeInEnabled : {FALSE}, fadeSpeed : FadeSpeeds,
     smoothing : BOOLEAN, threshold : {5}, designHot : {<<0, 0>>, <<1, -2>>}]
InitHotspot == InitWith(HotspotConfigs)
SetHotspot ==
    \E fd \in Fds, crtc \in CrtcIds, h \in CompositorHandles,
       hx \in SmoothInputs, hy \in SmoothInputsY, o \in Outcomes, r \in DriverRets :
        DrmModeSetCursor2(fd, crtc, h, hx, hy, o, r)
NextHotspot == SetHotspot
SpecHotspot == InitHotspot /\ [][NextHotspot]_vars

\* this step is a drmModeSetCursor2 show on an existing surface with a baseline
\* hotspot applied and smoothing enabled
IsSmoothedShow ==
    /\ last'.op = "drmModeSetCursor2"
    /\ last'.in.bo_handle # 0
    /\ initialized
    /\ hotspotInit
    /\ config.smoothing
\* the raw hotspot of this step: the compositor's plus the geometry offset
Raw == <<last'.in.hot_x + cursorHot[1], last'.in.hot_y + cursorHot[2]>>
Exceeds ==
    \/ Abs(Raw[1] - appliedHot[1]) > config.threshold
    \/ Abs(Raw[2] - appliedHot[2]) > config.threshold
\* d / 3 rounded toward zero: the integer q of the sign of d with
\* 3|q| <= |d| < 3|q| + 3
Third(d) ==
    CHOOSE q \in -Abs(d)..Abs(d) :
        Abs(3 * q) <= Abs(d) /\ Abs(d) < Abs(3 * q) + 3 /\ d * q >= 0
\* the hotspot the last forwarded call carries
ForwardedHot(cs) == <<cs[Len(cs)].arg.hot_x, cs[Len(cs)].arg.hot_y>>

(***************************************************************************)
(* C18: in drmModeSetCursor2 with smoothing enabled and a baseline applied *)
(* if the raw hotspot is further than the threshold from the applied one   *)
(* in either axis, the new applied hotspot is applied + (raw - applied)/3  *)
(* in each axis, the quotient rounded toward zero, and it is the hotspot   *)
(* forwarded; applied (0,0), raw (30,0), threshold 5 gives (10,0).         *)
(***************************************************************************)
C18_SmoothedByThird ==
    [][(IsSmoothedShow /\ Exceeds)
       => (/\ appliedHot' = <<appliedHot[1] + Third(Raw[1] - appliedHot[1]),
                              appliedHot[2] + Third(Raw[2] - appliedHot[2])>>
           /\ ForwardedHot(calls') = appliedHot'
           /\ (appliedHot = <<0, 0>> /\ Raw = <<30, 0>> /\ config.threshold = 5)
                 => appliedHot' = <<10, 0>>)]_vars
\* a smoothed step with a negative delta that 3 does not divide: the applied
\* hotspot went from 0 toward -14 by -4, and -4 was forwarded
C18_Witness ==
    /\ last.op = "drmModeSetCursor2"
    /\ last.in.bo_handle # 0
    /\ hotspotInit
    /\ config.smoothing
    /\ config.designHot = <<0, 0>>
    /\ last.in.hot_x = -14
    /\ appliedHot[1] = -4
    /\ ForwardedHot(calls) = appliedHot

(***************************************************************************)
(* C19: in drmModeSetCursor2 with smoothing enabled and a baseline applied *)
(* if the raw hotspot is within the threshold of the applied one in both   *)
(* axes, the applied hotspot becomes the raw one and the raw one is        *)
(* forwarded.                                                              *)
(***************************************************************************)
C19_WithinThresholdRaw ==
    [][(IsSmoothedShow /\ ~Exceeds)
       => (appliedHot' = Raw /\ ForwardedHot(calls') = Raw)]_vars

(***************************************************************************)
(* Two compositor threads.  The intercepted call path runs on whatever     *)
(* threads the compositor calls from; the test of INITIALIZED and the      *)
(* creation behind it (lib.rs 2049-2050) are two steps with no lock        *)
(* between them.  SpecCreate splits one thread's ioctl at its load of      *)
(* INITIALIZED and lets the other thread's calls run in between.           *)
(***************************************************************************)
\* the driver hands out a handle and a framebuffer id that are not in use
FreshOutcomes ==
    {[fail |-> "none", handle |-> h, fb_id |-> h + 2] : h \in {5, 6} \ {cursorHandle}}
        \cup {[fail |-> "addfb", handle |-> 0, fb_id |-> 0]}

\* ioctl up to and including INITIALIZED.load() at lib.rs 2049: the fd is
\* captured, the flag is read, no driver call has been made
IoctlLoad(fd, request, arg) ==
    /\ pending = NoCall
    /\ IsCursorRequest(request)
    /\ pending' = [op |-> "ioctl", need |-> ~initialized, fd |-> fd,
                   request |-> request, arg |-> arg]
    /\ cursorFd' = IF DrmType(request) = DRM_IOCTL_BASE /\ cursorFd < 0
                   THEN fd ELSE cursorFd
    /\ calls' = <<>>
    /\ last' = [op |-> "ioctl.load",
                in |-> [fd |-> fd, request |-> request, arg |-> arg]]
    /\ UNCHANGED <<visible, fadingOut, fadingIn, fadeAlpha, running, tasks,
                   initialized, cursorHandle, cursorFbId, buffer, surface, planes,
                   cursorHot, appliedHot, hotspotInit, screen, config, resolved,
                   ret>>

\* the rest of that ioctl, from the branch on the loaded value to the return
IoctlResume(o, r) ==
    /\ pending # NoCall
    /\ IoctlFrom(pending.need, pending.fd, pending.request, pending.arg, o, r)
    /\ pending' = NoCall

EnterIoctl ==
    \E fd \in Fds, request \in Requests : \E arg \in ArgsOf(request) :
        IoctlLoad(fd, request, arg)
ResumeIoctl ==
    \E o \in (IF pending # NoCall /\ pending.need THEN FreshOutcomes
              ELSE {[fail |-> "addfb", handle |-> 0, fb_id |-> 0]}),
       r \in DriverRets :
        IoctlResume(o, r)

NextCreate ==
    \/ EnterIoctl
    \/ ResumeIoctl
    \/ CallIoctl
    \/ CallAtomicAddProperty
SpecCreate == Init /\ [][NextCreate]_vars

\* a step that allocates a buffer: it issues DRM_IOCTL_MODE_CREATE_DUMB
Allocates(cs) ==
    \E i \in 1..Len(cs) :
        cs[i].fn = "ioctl" /\ cs[i].request = DRM_IOCTL_MODE_CREATE_DUMB

\* C20: over any interleaving of intercepted calls the surface is created at
\* most once: once INITIALIZED is set it stays set, the buffer handle, the
\* framebuffer id and the pixel mapping keep their values, and no step
\* allocates another buffer
C20_CreatedOnce ==
    [][initialized =>
          /\ initialized'
          /\ cursorHandle' = cursorHandle
          /\ cursorFbId' = cursorFbId
          /\ buffer' = buffer
          /\ ~Allocates(calls')]_vars

(***************************************************************************)
(* Failures: a surface creation that fails, a real function that dlsym     *)
(* does not find.                                                          *)
(***************************************************************************)
\* the step tried to create the surface and create_cursor_buffer returned false
CreationFailed == ~initialized /\ ~initialized' /\ Allocates(calls')

\* the compositor's own request, as the real function would have received it
\* without the library
OriginalCall(l) ==
    IF l.op = "ioctl" THEN IoctlCall(l.in.fd, l.in.request, l.in.arg)
    ELSE IF l.op = "drmModeAtomicAddProperty"
    THEN AtomicCall(l.in.object_id, l.in.property_id, l.in.value)
    ELSE [fn |-> "ioctl", fd |-> l.in.fd, request |-> DRM_IOCTL_MODE_CURSOR2,
          handle |-> l.in.bo_handle]
\* the last real call of the step is the compositor's own request
ForwardsOriginal(cs, l) ==
    /\ cs # <<>>
    /\ LET f == cs[Len(cs)] IN
       IF l.op \in {"ioctl", "drmModeAtomicAddProperty"} THEN f = OriginalCall(l)
       ELSE /\ f.fn = "ioctl"
            /\ f.fd = l.in.fd
            /\ f.request = DRM_IOCTL_MODE_CURSOR2
            /\ f.arg.handle = l.in.bo_handle

\* C21: a cursor call during which surface creation fails falls back to the
\* unmodified call: the last real call it makes is the compositor's request
\* with its arguments and property value unchanged
C21_FailureFallsBack ==
    [][CreationFailed => ForwardsOriginal(calls', last')]_vars

\* dlsym may miss each of the real functions the entry points forward to
UnresolvedSets ==
    {[ioctl |-> i, atomicAdd |-> a, getPlane |-> g, getProps |-> TRUE,
      getProp |-> TRUE] : i \in BOOLEAN, a \in BOOLEAN, g \in BOOLEAN}
InitResolve == InitOf(Configs, UnresolvedSets)
NextResolve ==
    \/ CallIoctl
    \/ CallGetPlane
    \/ CallAtomicAddProperty
SpecResolve == InitResolve /\ [][NextResolve]_vars

\* the real implementation of the entry point of the step l is not resolved
RealMissing(l) ==
    \/ l.op = "ioctl" /\ ~resolved.ioctl
    \/ l.op = "drmModeGetPlane" /\ ~resolved.getPlane
    \/ l.op = "drmModeAtomicAddProperty" /\ ~resolved.atomicAdd
\* null for drmModeGetPlane, -1 for the others
FailureValue(l) == IF l.op = "drmModeGetPlane" THEN 0 ELSE -1

\* C22: an entry point whose real implementation is not resolved returns the
\* failure value (-1, null for drmModeGetPlane) and invokes no driver
\* function, the legacy cursor ioctl codes included
C22_UnresolvedFails ==
    [][RealMissing(last') => (ret' = FailureValue(last') /\ calls' = <<>>)]_vars

(***************************************************************************)
(* The geometry of a design: transform_points.  A coordinate is an f32;    *)
(* the model keeps it as an integer number of quarters, for which the f32  *)
(* sums and differences below are exact.                                   *)
(***************************************************************************)
Quarter == 4
MaxPoints == 3
PointXs == {-3, 0, 2, 5}
PointYs == {-2, 0, 1}
PointSeqs ==
    UNION {[1..n -> PointXs \X PointYs] : n \in 0..MaxPoints}
Scales == {1, 2}

\* f32::round of v quarters, as an integer: to nearest, halves away from zero
TruncQuarters(v) == IF v >= 0 THEN v \div Quarter ELSE -((-v) \div Quarter)
RoundQuarters(v) ==
    IF v >= 0 THEN (2 * v + Quarter) \div (2 * Quarter)
    ELSE -((2 * (-v) + Quarter) \div (2 * Quarter))
\* iter().map(|p| p.k).fold(f32::MAX, f32::min)
MinCoord(ps, k) ==
    CHOOSE m \in {ps[i][k] : i \in 1..Len(ps)} : \A i \in 1..Len(ps) : m <= ps[i][k]

\* transform_points(points, scale, 0.0): cos_r = 1, sin_r = 0
transform_points(points, scale) ==
    IF points = <<>> THEN [points |-> <<>>, hot |-> <<0, 0>>]
    ELSE LET hx == points[1][1]
             hy == points[1][2]
             transformed == [i \in 1..Len(points) |->
                                <<(points[i][1] - hx) * scale,
                                  (points[i][2] - hy) * scale>>]
             min_x == MinCoord(transformed, 1)
             min_y == MinCoord(transformed, 2)
             adjusted == [i \in 1..Len(points) |->
                             <<transformed[i][1] - min_x, transformed[i][2] - min_y>>]
         IN  [points |-> adjusted,
              hot |-> <<RoundQuarters(-min_x), RoundQuarters(-min_y)>>]

\* the inputs are drawn in the initial state; Transform applies the function,
\* TransformAgain applies it to its own output
InitTransform ==
    /\ Loaded(Configs, ResolvedSets)
    /\ ~config.fadeEnabled /\ ~config.fadeInEnabled
    /\ \E ps \in PointSeqs, sc \in Scales :
          last = [op |-> "points", in |-> [points |-> ps, scale |-> sc]]
Transformed(l, points, scale) ==
    /\ last' = [op |-> l, in |-> [points |-> points, scale |-> scale],
                out |-> transform_points(points, scale)]
    /\ UNCHANGED <<visible, fadingOut, fadingIn, fadeAlpha, running, tasks,
                   initialized, cursorHandle, cursorFbId, cursorFd, buffer,
                   surface, planes, cursorHot, appliedHot, hotspotInit, screen,
                   config, resolved, pending, calls, ret>>
Transform ==
    /\ last.op = "points"
    /\ Transformed("transform_points", last.in.points, last.in.scale)
TransformAgain ==
    /\ last.op = "transform_points"
    /\ Transformed("transform_points.again", last.out.points, last.in.scale)
NextTransform == Transform \/ TransformAgain
SpecTransform == InitTransform /\ [][NextTransform]_vars

\* the bounding-box minimum of the points ps on axis k
BoxMin(ps, k) ==
    CHOOSE m \in PointXs \cup PointYs :
        /\ \A i \in 1..Len(ps) : m <= ps[i][k]
        /\ \E i \in 1..Len(ps) : m = ps[i][k]
\* h is an integer nearest to v quarters
Nearest(h, v) == 2 * (h * Quarter - v) <= Quarter /\ 2 * (v - h * Quarter) <= Quarter

\* C23: for a non-empty point sequence P, scale 1 and rotation 0, transform
\* returns P[i] - (min_x, min_y) for P's bounding-box minimum, so every output
\* coordinate is >= 0 and each axis attains 0; the hotspot offset is the output
\* position of the first point rounded to nearest; transforming the output
\* again returns the same points and the same offset
C23_TransformNormalises ==
    (last.op = "transform_points" /\ last.in.points # <<>> /\ last.in.scale = 1) =>
        LET P == last.in.points
            Q == last.out.points
            again == transform_points(Q, 1)
        IN  /\ Len(Q) = Len(P)
            /\ \A i \in 1..Len(P) :
                  Q[i] = <<P[i][1] - BoxMin(P, 1), P[i][2] - BoxMin(P, 2)>>
            /\ \A i \in 1..Len(Q) : Q[i][1] >= 0 /\ Q[i][2] >= 0
            /\ \E i \in 1..Len(Q) : Q[i][1] = 0
            /\ \E i \in 1..Len(Q) : Q[i][2] = 0
            /\ Nearest(last.out.hot[1], Q[1][1])
            /\ Nearest(last.out.hot[2], Q[1][2])
            /\ again.points = Q
            /\ again.hot = last.out.hot
\* three points at scale 1 whose first point (0, 0.25) is not the minimum: it
\* lands at (0.75, 0.25) and the offset is (1, 0)
C23_Witness ==
    /\ last.op = "transform_points"
    /\ last.in.scale = 1
    /\ Len(last.in.points) = MaxPoints
    /\ last.in.points[1] = <<0, 1>>
    /\ last.out.points[1] = <<3, 1>>
    /\ last.out.hot = <<1, 0>>

(***************************************************************************)
(* blend_pixel.  A 32-bit ARGB value is the pair <<high 16 bits, low 16    *)
(* bits>>: alpha and red in the high half, green and blue in the low half. *)
(***************************************************************************)
ChannelAlphas == {0, 1, 128, 254, 255}
ChannelReds == {0, 100, 255}
ChannelEnds == {0, 255}
Pixels ==
    {<<a * 256 + r, g * 256 + b>> :
        a \in ChannelAlphas, r \in ChannelReds, g \in ChannelEnds, b \in ChannelEnds}

\* the bitwise or of two naturals
RECURSIVE BitOr(_, _)
BitOr(a, b) ==
    IF a = 0 THEN b
    ELSE IF b = 0 THEN a
    ELSE (IF a % 2 = 1 \/ b % 2 = 1 THEN 1 ELSE 0) + 2 * BitOr(a \div 2, b \div 2)

\* (p >> 24) & 0xFF, (p >> 16) & 0xFF, (p >> 8) & 0xFF, p & 0xFF
AlphaOf(p) == p[1] \div 256
RedOf(p) == p[1] % 256
GreenOf(p) == p[2] \div 256
BlueOf(p) == p[2] % 256
\* (a << 24) | (r << 16) | (g << 8) | b in 32 bits
Pack(a, r, g, b) ==
    <<BitOr(BitOr((a * 256) % 65536, r % 65536), (g \div 256) % 65536),
      BitOr((g * 256) % 65536, b % 65536)>>

\* (s * sa + d * inv_sa) / 255
WeightedBy254(s, d, sa) == (s * sa + d * (FULL_ALPHA - sa)) \div 254
Weighted(s, d, sa) == (s * sa + d * (FULL_ALPHA - sa)) \div FULL_ALPHA

blend_pixel(dst, src) ==
    LET sa == AlphaOf(src)
        inv_sa == FULL_ALPHA - sa
    IN  IF sa = 0 THEN dst
        ELSE IF sa = FULL_ALPHA THEN src
        ELSE Pack(sa + (AlphaOf(dst) * inv_sa) \div FULL_ALPHA,
                  Weighted(RedOf(src), RedOf(dst), sa),
                  Weighted(GreenOf(src), GreenOf(dst), sa),
                  Weighted(BlueOf(src), BlueOf(dst), sa))

\* a step of a pure function: only the record of the last step changes
Computes(l) ==
    /\ last' = l
    /\ UNCHANGED <<visible, fadingOut, fadingIn, fadeAlpha, running, tasks,
                   initialized, cursorHandle, cursorFbId, cursorFd, buffer,
                   surface, planes, cursorHot, appliedHot, hotspotInit, screen,
                   config, resolved, pending, calls, ret>>

\* the destination and the source are drawn in the initial state; Blend blends
\* them, BlendOver draws the same source over the result once more
InitBlend ==
    /\ Loaded(Configs, ResolvedSets)
    /\ ~config.fadeEnabled /\ ~config.fadeInEnabled
    /\ \E d \in Pixels, s \in Pixels :
          last = [op |-> "pixels", in |-> [dst |-> d, src |-> s]]
Blend ==
    /\ last.op = "pixels"
    /\ Computes([op |-> "blend_pixel", in |-> last.in,
                 out |-> blend_pixel(last.in.dst, last.in.src)])
BlendOver ==
    /\ last.op = "blend_pixel"
    /\ last.out # last.in.dst
    /\ Computes([op |-> "blend_pixel",
                 in |-> [dst |-> last.out, src |-> last.in.src],
                 out |-> blend_pixel(last.out, last.in.src)])
NextBlend == Blend \/ BlendOver
SpecBlend == InitBlend /\ [][NextBlend]_vars

\* C24: blend_pixel(dst, src): source alpha 255 gives src, source alpha 0 gives
\* dst, otherwise each colour channel is (s*sa + d*(255 - sa)) div 255 and
\* alpha is sa + (da*(255 - sa)) div 255; every channel of the result lies in
\* 0..255, so none carries into its neighbour
C24_BlendPixel ==
    last.op = "blend_pixel" =>
        LET d == last.in.dst
            s == last.in.src
            o == last.out
            sa == s[1] \div 256
            da == d[1] \div 256
            mix(sc, dc) == (sc * sa + dc * (255 - sa)) \div 255
            a == sa + (da * (255 - sa)) \div 255
            r == mix(s[1] % 256, d[1] % 256)
            g == mix(s[2] \div 256, d[2] \div 256)
            b == mix(s[2] % 256, d[2] % 256)
        IN  /\ sa = 255 => o = s
            /\ sa = 0 => o = d
            /\ (sa # 0 /\ sa # 255) =>
                  /\ {a, r, g, b} \subseteq 0..255
                  /\ o = <<a * 256 + r, g * 256 + b>>
            /\ o[1] \in 0..65535 /\ o[2] \in 0..65535
\* a translucent source over an opaque destination: alpha saturates at 255
\* and the red channel is mixed
C24_Witness ==
    /\ last.op = "blend_pixel"
    /\ AlphaOf(last.in.src) = 254
    /\ AlphaOf(last.in.dst) = 255
    /\ RedOf(last.in.src) = 255
    /\ RedOf(last.in.dst) = 255
    /\ AlphaOf(last.out) = 255
    /\ RedOf(last.out) = 255

(***************************************************************************)
(* The custom design: render_custom_cursor and the built-in arrow.  A      *)
(* description is what the parsers find in the file: its version (0: none  *)
(* that parses), the number of points of the legacy "points" array and,    *)
(* per entry of "layers", the number of points of the layer.  What a       *)
(* render draws is the sequence of polygons it fills: the number of points *)
(* and the style (colours, outline, shadow) of each.                       *)
(***************************************************************************)
MaxLayers == 2
LayerSizes == 0..3
LegacySizes == {0, 3}
NoFile == [present |-> FALSE, version |-> 0, points |-> 0, layers |-> <<>>,
           style |-> "user"]
Descriptions ==
    {NoFile} \cup
    {[present |-> TRUE, version |-> v, points |-> n, layers |-> ls, style |-> "user"] :
        v \in 0..2, n \in LegacySizes,
        ls \in UNION {[1..k -> LayerSizes] : k \in 0..MaxLayers}}
\* EMBEDDED_CURSOR_JSON: one layer of five points
EMBEDDED_CURSOR_JSON ==
    [present |-> TRUE, version |-> 0, points |-> 0, layers |-> <<5>>,
     style |-> "embedded"]
CursorTypes == {"default", "custom"}

\* parse_layers: parse_single_layer drops a layer without points
parse_layers(content) == SelectSeq(content.layers, LAMBDA n : n > 0)
\* the layers the loop of render_custom_cursor_v2 draws
DrawableLayers(layers) == SelectSeq(layers, LAMBDA n : n >= 3)

render_custom_cursor_v2(content) ==
    LET layers == parse_layers(content) IN
    IF layers = <<>> THEN <<[n |-> 7, style |-> "white arrow"]>>
    ELSE LET drawn == DrawableLayers(layers) IN
         [i \in 1..Len(drawn) |-> [n |-> drawn[i], style |-> content.style]]
render_arrow_cursor == render_custom_cursor_v2(EMBEDDED_CURSOR_JSON)
render_custom_cursor_v1(content) ==
    IF content.points = 0 THEN render_arrow_cursor
    ELSE <<[n |-> content.points, style |-> content.style]>>
\* parse_float(content, "version").unwrap_or(1.0) as i32
VersionOf(content) == IF content.version = 0 THEN 1 ELSE content.version
render_custom_cursor(content) ==
    IF ~content.present THEN render_arrow_cursor
    ELSE IF VersionOf(content) >= 2 THEN render_custom_cursor_v2(content)
    ELSE render_custom_cursor_v1(content)
\* the match of render_cursor on the cursor type
RenderDesign(type, content) ==
    IF type = "custom" THEN render_custom_cursor(content) ELSE render_arrow_cursor

InitCustom ==
    /\ Loaded(Configs, ResolvedSets)
    /\ ~config.fadeEnabled /\ ~config.fadeInEnabled
    /\ \E t \in CursorTypes, c \in Descriptions :
          last = [op |-> "design", in |-> [type |-> t, content |-> c]]
RenderCursor ==
    /\ last.op = "design"
    /\ Computes([op |-> "render_cursor", in |-> last.in,
                 out |-> RenderDesign(last.in.type, last.in.content)])
NextCustom == RenderCursor
SpecCustom == InitCustom /\ [][NextCustom]_vars

\* the description is absent, or yields no usable point data
Unusable(content) ==
    \/ ~content.present
    \/ VersionOf(content) < 2 /\ content.points = 0
    \/ VersionOf(content) >= 2 /\ \A i \in 1..Len(content.layers) : content.layers[i] < 3

\* C25: with the custom cursor type and a description that is absent,
\* unparseable or without usable point data, render draws what cursor type
\* Default draws, and the surface is not left empty
C25_CustomFallsBack ==
    (last.op = "render_cursor" /\ last.in.type = "custom" /\ Unusable(last.in.content)) =>
        /\ last.out = RenderDesign("default", NoFile)
        /\ last.out # <<>>

(***************************************************************************)
(* What the driver is given to scan out.                                   *)
(***************************************************************************)
\* a fade-out has run to completion: alpha is 0, the state is Hidden and no
\* fade thread is left
FadeOutDone == Hidden /\ fadeAlpha = 0 /\ AliveTasks = {} /\ initialized
\* a call that presents the owned surface to the driver
IsOwnedCall(c) ==
    \/ /\ c.fn = "ioctl"
       /\ IsCursorRequest(c.request)
       /\ ~c.arg.isNull
       /\ HasFlag(c.arg.flags, DRM_MODE_CURSOR_BO)
       /\ c.arg.handle # 0
       /\ c.arg.handle = cursorHandle
    \/ /\ c.fn = "atomic"
       /\ IsFbProp(planes, c.obj, c.prop)
       /\ c.value # 0
       /\ c.value = cursorFbId
PresentsOwned(cs) == \E i \in 1..Len(cs) : IsOwnedCall(cs[i])

\* C26: after a fade-out has run to completion, a show signal with fade-in
\* disabled presents the owned surface holding the cursor rendered at full
\* alpha, not the buffer the finished fade left cleared or at alpha 0
C26_ShowAfterFadeRenders ==
    [][(FadeOutDone /\ ~config.fadeInEnabled /\ ShowSignal' /\ PresentsOwned(calls)')
       => surface' = FULL_ALPHA]_vars

\* C27: a show signal that cancels a fade-out in progress presents the owned
\* surface rendered at full alpha; the partially faded frame of the cancelled
\* fade is not what the driver is given
C27_CancelPresentsFullAlpha ==
    [][(FadingOut /\ initialized /\ ShowSignal' /\ ~fadingOut' /\ PresentsOwned(calls)')
       => surface' = FULL_ALPHA]_vars

\* C28: in every reachable state with the surface created, if the visible
\* flag is set, neither fading flag is set and no fade thread is running, the
\* composite alpha is 255 and the surface holds the cursor at full alpha (a
\* fade-out has not left it cleared)
C28_VisibleIsOpaque ==
    (Visible /\ ~running /\ AliveTasks = {} /\ initialized)
        => (fadeAlpha = FULL_ALPHA /\ surface = FULL_ALPHA)

\* C29: once a fade-out has completed and the state is Hidden, a further hide
\* signal with fade-out enabled keeps the state Hidden: it starts no fade
\* thread, does not render into the surface, and forwards neither the owned
\* framebuffer id nor the owned handle
C29_RepeatedHideStaysHidden ==
    [][(FadeOutDone /\ cursor_fade_enabled /\ HideSignal')
       => (/\ Hidden'
           /\ tasks' = tasks
           /\ surface' = surface
           /\ ~PresentsOwned(calls)')]_vars

\* C30: in every reachable state the visual state is exactly one of Hidden,
\* Visible, FadingOut, FadingIn: the fading-out and fading-in flags are
\* never both set, and the visible flag is never set with the fading-out flag
C30_OneVisualState ==
    /\ ~(fadingOut /\ fadingIn)
    /\ ~(visible /\ fadingOut)
    /\ Cardinality({s \in {"Hidden", "Visible", "FadingOut", "FadingIn"} :
                       \/ s = "Hidden" /\ Hidden
                       \/ s = "Visible" /\ Visible
                       \/ s = "FadingOut" /\ FadingOut
                       \/ s = "FadingIn" /\ FadingIn}) = 1

(***************************************************************************)
(* C31: a fade requested while a fade thread is alive is refused, not      *)
(* queued.  No thread starts in a step taken while one is alive, and a     *)
(* thread starts only in the drmModeAtomicAddProperty call that carries    *)
(* the hide or show signal asking for it, never in a thread step or a      *)
(* later call on behalf of an earlier, refused request.                    *)
(***************************************************************************)
\* the step starts a fade thread
StartsTask == \E t \in 1..MaxTasks : ~Alive(t) /\ tasks'[t].pc # "dead"
C31_RefusedNotQueued ==
    [][/\ AliveTasks # {} => ~StartsTask
       /\ StartsTask => (AtomicSignal(TRUE)' \/ AtomicSignal(FALSE)')]_vars
\* a fade-in was requested while the fade-out thread was alive: the flag is
\* set, the fade-out thread is the only thread
C31_Witness ==
    /\ AtomicSignal(FALSE)
    /\ fadingIn
    /\ \E t \in AliveTasks : tasks[t].kind = "out"
    /\ \A t \in AliveTasks : tasks[t].kind = "out"

(***************************************************************************)
(* C32: a fade thread whose governing flag has been cleared by a call, and *)
(* stays cleared, begins no further fade step once it is back at the loop  *)
(* head, and exits without storing the terminal alpha and without the      *)
(* terminal clear or render of the surface: from the loop head it goes to  *)
(* the final test, from the final test to the exit, and it does not carry  *)
(* on into the terminal block when the flag is already cleared there.      *)
(***************************************************************************)
\* the step is a step of a fade thread that finds its governing flag cleared
CancelledStep(pc) ==
    /\ IsTaskStep
    /\ last'.in.pc = pc
    /\ ~Governing(last'.in.kind)
C32_CancelledTaskExits ==
    [][/\ CancelledStep("loop") => tasks'[last'.in.slot].pc = "final"
       /\ CancelledStep("final") => tasks'[last'.in.slot].pc = "exit"
       /\ CancelledStep("clearflag") =>
             (tasks'[last'.in.slot].pc = "exit" /\ fadeAlpha' = fadeAlpha
              /\ surface' = surface)]_vars

(***************************************************************************)
(* C33: a drmModeMoveCursor call that lowers the fade alpha to a value a   *)
(* with 0 < a < 255 leaves a pixel rendered with alpha o > 0 at alpha      *)
(* floor(o * a / 255): the cursor stays visible while a > 0.  The pixel of *)
(* the model is rendered at o = 255.                                       *)
(***************************************************************************)
C33_LegacyFadeScales ==
    [][(/\ IsMoveStep
        /\ fadingOut /\ fadeAlpha > 0
        /\ initialized /\ buffer
        /\ 0 < fadeAlpha' /\ fadeAlpha' < FULL_ALPHA)
       => (/\ surface' = (FULL_ALPHA * fadeAlpha') \div 255
           /\ surface' > 0)]_vars

(***************************************************************************)
(* Surface creation failing at each of its steps.  SpecFail gives every    *)
(* entry point that creates the surface every outcome of the creation.     *)
(***************************************************************************)
AnyOutcomes ==
    IF initialized THEN {[fail |-> "addfb", handle |-> 0, fb_id |-> 0]}
    ELSE CreateOutcomes \cup
         {[fail |-> x, handle |-> 0, fb_id |-> 0] : x \in {"create", "map", "mmap"}}
TryIoctl ==
    \E fd \in Fds, request \in Requests, o \in AnyOutcomes, r \in DriverRets :
        \E arg \in ArgsOf(request) : Ioctl(fd, request, arg, o, r)
TrySetCursor ==
    \E fd \in Fds, crtc \in CrtcIds, h \in CompositorHandles,
       o \in AnyOutcomes, r \in DriverRets :
        DrmModeSetCursor(fd, crtc, h, o, r)
TrySetCursor2 ==
    \E fd \in Fds, crtc \in CrtcIds, h \in CompositorHandles,
       hx \in HotInputs, hy \in HotInputs, o \in AnyOutcomes, r \in DriverRets :
        DrmModeSetCursor2(fd, crtc, h, hx, hy, o, r)
TryAtomicAddProperty ==
    \E obj \in CompositorObjects, prop \in PropertyIds, value \in CompositorFbs,
       found \in Founds, o \in AnyOutcomes, r \in DriverRets :
        DrmModeAtomicAddProperty(obj, prop, value, found, o, r)
NextFail ==
    \/ TryIoctl
    \/ TrySetCursor
    \/ TrySetCursor2
    \/ TryAtomicAddProperty
SpecFail == Init /\ [][NextFail]_vars

\* the step is a call that creates the surface when there is none: a cursor
\* ioctl, a show on drmModeSetCursor or drmModeSetCursor2, an atomic call on
\* a cursor plane once the device fd is known
CreatingStep ==
    \/ last'.op = "ioctl" /\ IsCursorRequest(last'.in.request)
    \/ last'.op \in {"drmModeSetCursor", "drmModeSetCursor2"} /\ last'.in.bo_handle # 0
    \/ /\ last'.op = "drmModeAtomicAddProperty"
       /\ get_cursor_plane_index(planes', last'.in.object_id) # 0
       /\ cursorFd >= 0
\* the fd the entry of ioctl captures before any creation (lib.rs 2038-2043)
FdAtEntry ==
    IF last'.op = "ioctl" /\ DrmType(last'.in.request) = DRM_IOCTL_BASE /\ cursorFd < 0
    THEN last'.in.fd ELSE cursorFd

\* the creation ran its last request (ADDFB2): the steps before it succeeded
ReachedAddFb(cs) ==
    \E i \in 1..Len(cs) :
        cs[i].fn = "ioctl" /\ cs[i].request = DRM_IOCTL_MODE_ADDFB2
\* the step recorded nothing of a surface
NothingRecorded ==
    /\ ~initialized'
    /\ cursorHandle' = cursorHandle
    /\ cursorFbId' = cursorFbId
    /\ buffer' = buffer
    /\ surface' = surface
    /\ cursorFd' = FdAtEntry
\* the step recorded a whole surface
SurfaceRecorded ==
    /\ initialized' /\ buffer'
    /\ cursorHandle' # 0 /\ cursorFbId' # 0 /\ cursorFd' >= 0

StoreSurface(fd, request, arg, o) ==
    LET stored == [Surf EXCEPT !.fb_id = o.fb_id, !.buffer = TRUE,
                               !.handle = o.handle, !.fd = fd,
                               !.initialized = TRUE]
    IN  /\ pending = NoCall
        /\ ~initialized
        /\ IsCursorRequest(request)
        /\ CreateSucceeds(o)
        /\ pending' = [op |-> "ioctl.render", need |-> FALSE, fd |-> fd,
                       request |-> request, arg |-> arg]
        /\ Store(Flags, stored, CreateCalls(fd, o), 0,
                 [op |-> "ioctl.store",
                  in |-> [fd |-> fd, request |-> request, arg |-> arg]])
        /\ UNCHANGED <<planes, appliedHot, hotspotInit, screen>>

\* the rest of that ioctl: render_cursor() at lib.rs 603, then the request
\* forwarded with the owned handle (2060-2081)
RenderSurface(r) ==
    LET arg == pending.arg
        s1 == render_cursor(Surf)
        a2 == IF HasFlag(arg.flags, DRM_MODE_CURSOR_BO) /\ arg.handle # 0
              THEN [arg EXCEPT !.handle = s1.handle,
                               !.width = CURSOR_DISPLAY_SIZE,
                               !.height = CURSOR_DISPLAY_SIZE]
              ELSE arg
        l == [op |-> "ioctl.render",
              in |-> [fd |-> pending.fd, request |-> pending.request, arg |-> arg]]
    IN  /\ pending # NoCall
        /\ pending.op = "ioctl.render"
        /\ pending' = NoCall
        /\ UNCHANGED <<planes, appliedHot, hotspotInit, screen>>
        /\ IF arg.isNull THEN Store(Flags, s1, <<>>, 0, l)
           ELSE Store(Flags, s1, RealIoctlCalls(pending.fd, pending.request, a2),
                      RealIoctlRet(r), l)

EnterCreation ==
    \E fd \in Fds, request \in Requests, o \in Outcomes :
        \E arg \in ArgsOf(request) : StoreSurface(fd, request, arg, o)
FinishCreation == \E r \in DriverRets : RenderSurface(r)

NextPublish ==
    \/ EnterCreation
    \/ FinishCreation
    \/ CallIoctl
    \/ CallAtomicAddProperty
SpecPublish == Init /\ [][NextPublish]_vars

\* a render pass into the surface has completed: the creating call is past
\* its render_cursor(), or another call's refresh has drawn the cursor
RenderedOnce == pending = NoCall \/ surface # 0

\* C35: in any interleaving of intercepted calls, the owned buffer handle
\* or framebuffer id is never forwarded to the driver before at least one
\* render pass into the surface has completed
C35_NoForwardBeforeRender ==
    [][PresentsOwned(calls)' => RenderedOnce']_vars

\* C36: with smoothing enabled, repeated drmModeSetCursor2 show calls that
\* carry the same raw hotspot eventually make the applied (forwarded)
\* hotspot equal to it, for every starting applied hotspot and threshold.
\* The applied hotspot after a call is a function of the applied hotspot
\* before it and of the raw one, so the repetition reaches the raw hotspot
\* only if every call that finds them different moves the applied one
C36_SmoothingConverges ==
    [][(IsSmoothedShow /\ Raw # appliedHot) => appliedHot' # appliedHot]_vars

(***************************************************************************)
(* The placement of the layers of a design (render_custom_cursor_v2,       *)
(* lib.rs 1123-1137): the hotspot comes from one transform_points over the *)
(* points of all layers, each drawn layer from a transform_points of its   *)
(* own points.  Coordinates are in quarters of a pixel, rotation is 0.     *)
(***************************************************************************)
LayerXs == {0, 10}
LayerYs == {0, 4}
LayerShapes == [1..MaxPoints -> LayerXs \X LayerYs]
Designs == UNION {[1..n -> LayerShapes] : n \in 1..MaxLayers}

\* all_points: the points of the layers one after the other
RECURSIVE AllPoints(_)
AllPoints(layers) ==
    IF layers = <<>> THEN <<>>
    ELSE layers[1] \o AllPoints(Tail(layers))

\* the hotspot stored and, per layer, the points handed to the drawing
\* primitives (none for a layer of fewer than 3 points, which is skipped)
place_layers(layers, scale) ==
    [hot |-> transform_points(AllPoints(layers), scale).hot,
     drawn |-> [i \in 1..Len(layers) |->
                   IF Len(layers[i]) < 3 THEN <<>>
                   ELSE transform_points(layers[i], scale).points]]

InitLayers ==
    /\ Loaded(Configs, ResolvedSets)
    /\ ~config.fadeEnabled /\ ~config.fadeInEnabled
    /\ \E d \in Designs, sc \in Scales :
          last = [op |-> "layers", in |-> [layers |-> d, scale |-> sc]]
PlaceLayers ==
    /\ last.op = "layers"
    /\ Computes([op |-> "place_layers", in |-> last.in,
                 out |-> place_layers(last.in.layers, last.in.scale)])
NextLayers == PlaceLayers
SpecLayers == InitLayers /\ [][NextLayers]_vars

\* where point j of layer i is drawn, less where the design puts it
Shift(l, i, j) ==
    <<l.out.drawn[i][j][1] - l.in.layers[i][j][1] * l.in.scale,
      l.out.drawn[i][j][2] - l.in.layers[i][j][2] * l.in.scale>>

\* C37: in a multi-layer design every layer is placed with the same
\* translation, so the relative positions between layers are preserved,
\* and the reported hotspot offset is the pixel position at which the
\* design's hotspot (the first point of the first layer) is drawn
C37_LayersShareTranslation ==
    (last.op = "place_layers" /\ Len(last.in.layers) > 1) =>
        /\ \A i \in 1..Len(last.in.layers) :
              \A j \in 1..Len(last.in.layers[i]) :
                  Shift(last, i, j) = Shift(last, 1, 1)
        /\ Nearest(last.out.hot[1], last.out.drawn[1][1][1])
        /\ Nearest(last.out.hot[2], last.out.drawn[1][1][2])

(***************************************************************************)
(* The pixels the drawing primitives write.  A primitive is modelled by    *)
(* the set of buffer indices it stores to.  Coordinates and offsets are    *)
(* in half pixels, so the scanline centre y + 0.5 is the integer 2y + 1;   *)
(* an intersection is the exact fraction <<num, den>> (den > 0) of half    *)
(* pixels.  The surface is SurfaceWidth x SurfaceHeight pixels, the stride *)
(* is the width (render_cursor passes width, lib.rs 764-775).              *)
(***************************************************************************)
Half == 2
SurfaceWidth == 3
SurfaceHeight == 2
ShapeXs == {-4, 0, 3, 10}
ShapeYs == {-4, 1, 7}
Shapes == [1..MaxPoints -> ShapeXs \X ShapeYs]
Offsets == {-4, 0, 2}

Larger(a, b) == IF a >= b THEN a ELSE b
Smaller(a, b) == IF a <= b THEN a ELSE b
\* v as i32, for v half pixels: the pixel, rounded toward zero
AsPixel(v) == TruncDiv(v, Half)
\* iter().map(|p| p.k).fold(f32::MIN, f32::max)
MaxCoord(ps, k) ==
    CHOOSE m \in {ps[i][k] : i \in 1..Len(ps)} : \A i \in 1..Len(ps) : m >= ps[i][k]

\* the rows a scanline fill visits: min_y.max(0) ..= max_y.min(height - 1)
ScanRowsUnclamped(points, oy) ==
    Larger(AsPixel(MinCoord(points, 2) + oy), 0) ..
        AsPixel(MaxCoord(points, 2) + oy)
ScanRows(points, oy) ==
    Larger(AsPixel(MinCoord(points, 2) + oy), 0) ..
        Smaller(AsPixel(MaxCoord(points, 2) + oy), SurfaceHeight - 1)

\* a < b for fractions of positive denominator
Before(a, b) == a[1] * b[2] < b[1] * a[2]
\* sort_by(partial_cmp): ascending
RECURSIVE SortAscending(_)
SortAscending(s) ==
    IF s = <<>> THEN <<>>
    ELSE LET k == CHOOSE i \in 1..Len(s) :
                     /\ \A j \in 1..Len(s) : ~Before(s[j], s[i])
                     /\ \A j \in 1..(i - 1) : Before(s[i], s[j])
             rest == [i \in 1..(Len(s) - 1) |-> IF i < k THEN s[i] ELSE s[i + 1]]
         IN  <<s[k]>> \o SortAscending(rest)

\* the intersections of the scanline y with the edges of the polygon, in
\* edge order: x1 + (yf - y1) / (y2 - y1) * (x2 - x1)
Intersections(points, ox, oy, y) ==
    LET n == Len(points)
        yf == Half * y + 1
        edge(i) == [x1 |-> points[i][1] + ox, y1 |-> points[i][2] + oy,
                    x2 |-> points[(i % n) + 1][1] + ox,
                    y2 |-> points[(i % n) + 1][2] + oy]
        crosses(e) == \/ e.y1 <= yf /\ e.y2 > yf
                      \/ e.y2 <= yf /\ e.y1 > yf
        at(e) == LET num == e.x1 * (e.y2 - e.y1) + (yf - e.y1) * (e.x2 - e.x1)
                     den == e.y2 - e.y1
                 IN  IF den > 0 THEN <<num, den>> ELSE <<-num, -den>>
        edges == [i \in 1..n |-> edge(i)]
        hit == SelectSeq(edges, crosses)
    IN  [i \in 1..Len(hit) |-> at(hit[i])]

\* chunk[0].max(0.0) as i32 and chunk[1].min(stride as f32 - 1.0) as i32
SpanStart(a) == IF a[1] < 0 THEN 0 ELSE a[1] \div (Half * a[2])
SpanEnd(b, stride) ==
    IF b[1] >= (stride - 1) * Half * b[2] THEN stride - 1
    ELSE TruncDiv(b[1], Half * b[2])

\* the indices a scanline fill stores to: for each row and each chunk of two
\* sorted intersections, the pixels x_start..=x_end that pass
\* x >= 0 && x < stride, at idx = y * stride + x
ScanlineFill(stride, points, ox, oy) ==
    IF points = <<>> THEN {}
    ELSE UNION {
        LET xs == SortAscending(Intersections(points, ox, oy, y))
        IN  UNION {
              {y * stride + x :
                  x \in {v \in SpanStart(xs[2 * c - 1])..SpanEnd(xs[2 * c], stride) :
                            v >= 0 /\ v < stride}} :
              c \in 1..(Len(xs) \div 2)} :
        y \in ScanRows(points, oy)}

draw_filled_polygon(stride, points, ox, oy) == ScanlineFill(stride, points, ox, oy)
draw_frosted_glass(stride, points, ox, oy) == ScanlineFill(stride, points, ox, oy)

\* plot_aa(stride, x, y, color, brightness); lit: the brightness is positive
\* and the alpha it gives is not 0
plot_aa(stride, x, y, lit) ==
    IF x < 0 \/ y < 0 \/ x >= stride \/ y >= SurfaceHeight \/ ~lit THEN {}
    ELSE {y * stride + x}
\* draw_line_aa stores only through plot_aa, at a pixel of the line and the
\* pixel next to it: here the pixels of the end points and the ones below
draw_line_aa(stride, points, ox, oy, lit) ==
    UNION {plot_aa(stride, AsPixel(points[i][1] + ox), AsPixel(points[i][2] + oy), lit)
           \cup plot_aa(stride, AsPixel(points[i][1] + ox),
                        AsPixel(points[i][2] + oy) + 1, lit) :
           i \in 1..Len(points)}
\* the loops for i in 0..(width * height) of render_cursor, apply_cursor_fade
\* and the fade-out thread
WholeBuffer == 0..(SurfaceWidth * SurfaceHeight - 1)

InitDraw ==
    /\ Loaded(Configs, ResolvedSets)
    /\ ~config.fadeEnabled /\ ~config.fadeInEnabled
    /\ \E ps \in Shapes, ox \in Offsets, oy \in Offsets :
          last = [op |-> "shape", in |-> [points |-> ps, ox |-> ox, oy |-> oy]]
Draws(op, written) ==
    /\ last.op = "shape"
    /\ Computes([op |-> op, in |-> last.in, out |-> written])
FillPolygon ==
    Draws("draw_filled_polygon",
          draw_filled_polygon(SurfaceWidth, last.in.points, last.in.ox, last.in.oy))
FrostedGlass ==
    Draws("draw_frosted_glass",
          draw_frosted_glass(SurfaceWidth, last.in.points, last.in.ox, last.in.oy))
LineAa ==
    \E lit \in BOOLEAN :
        Draws("draw_line_aa",
              draw_line_aa(SurfaceWidth, last.in.points, last.in.ox, last.in.oy, lit))
FadeStep == Draws("apply_cursor_fade", WholeBuffer)
NextDraw ==
    \/ FillPolygon
    \/ FrostedGlass
    \/ LineAa
    \/ FadeStep
SpecDraw == InitDraw /\ [][NextDraw]_vars

\* C38: every pixel write made by render, by the fill, anti-aliased line
\* and frosted primitives and by the fade step targets an index in
\* [0, width * height) of the surface, for any geometry, including points
\* that lie outside the buffer or become negative after the shadow offset
C38_WritesInBounds ==
    last.op \in {"draw_filled_polygon", "draw_frosted_glass", "draw_line_aa",
                 "apply_cursor_fade"}
        => \A idx \in last.out : 0 <= idx /\ idx < SurfaceWidth * SurfaceHeight
\* a fill of a polygon with a point left of and above the buffer after the
\* offset and a point right of and below it, which stores to every pixel
C38_Witness ==
    /\ last.op = "draw_filled_polygon"
    /\ \E i \in 1..Len(last.in.points) :
          /\ last.in.points[i][1] + last.in.ox < 0
          /\ last.in.points[i][2] + last.in.oy < 0
    /\ \E i \in 1..Len(last.in.points) :
          /\ last.in.points[i][1] + last.in.ox >= Half * SurfaceWidth
          /\ last.in.points[i][2] + last.in.oy >= Half * SurfaceHeight
    /\ last.out = WholeBuffer

====
